---------------------------- MODULE Spec2Model ----------------------------
(***************************************************************************)
(* State-machine model of the Virtual Eye backend (src/backend/server.py): *)
(* the calibration store, the distance and side classifier, the wall       *)
(* heuristic with its alert cooldown, the caption throttle and the         *)
(* deterministic question resolver.                                        *)
(*                                                                         *)
(* Conventions.                                                            *)
(*  - An optional value (Python None or a value) is a sequence of length   *)
(*    0 or 1: None == <<>>, Some(v) == <<v>>.                              *)
(*  - A Python str that the code searches (questions, class names, model   *)
(*    outputs) is a sequence of one-character strings.  A text the code    *)
(*    only builds (messages, captions, answers) is a sequence of string    *)
(*    pieces: the literal parts of the f-string are single pieces, the     *)
(*    interpolated parts are spliced in character by character.            *)
(*  - A float is an exact rational [num, den] with den > 0.  Time is in    *)
(*    whole seconds, K in metre*pixels.                                    *)
(***************************************************************************)
EXTENDS Integers, Sequences, FiniteSets, TLC

\* ------------------------------------------------------------------ bounds
\* The clock reading at process start (time.time() is an epoch value far
\* larger than both intervals; the timestamps start at 0.0).
StartTime == 10
\* Seconds of process lifetime that are explored.
Horizon == 6
\* Largest time spent inside one analyze_frame call between its two clock
\* readings.
MaxDelay == 1
\* Seconds explored by the specification that takes every input.
ShortHorizon == 1

MaxTime == StartTime + Horizon

\* --------------------------------------------------------------- constants
CAPTION_INTERVAL == 5
WALL_ALERT_COOLDOWN == 3
\* LEFT_FRAC = 0.33 and RIGHT_FRAC = 0.66, in hundredths
LEFT_FRAC == 33
RIGHT_FRAC == 66
\* 1e-6, the term added to every pixel height before dividing: 1 / EpsDen
EpsDen == 1000000

\* --------------------------------------------------------------- optionals
None == <<>>
Some(v) == <<v>>
IsNone(o) == o = <<>>
Val(o) == o[1]

\* --------------------------------------------------------------- rationals
Rat(n, d) == [num |-> n, den |-> d]
RatLt(a, b) == a.num * b.den < b.num * a.den
RatGe(a, b) == ~RatLt(a, b)
RatGt(a, b) == RatLt(b, a)
Abs(n) == IF n < 0 THEN -n ELSE n

\* K / (px + 1e-6)
DivEps(K, px) == Rat(K * EpsDen, px * EpsDen + 1)

\* The integer part q and remainder r of 10^k * (q + r/den), digit by digit
\* (the products stay within 32-bit integers).
RECURSIVE ShiftDigits(_, _, _, _)
ShiftDigits(q, r, den, k) ==
    IF k = 0 THEN [q |-> q, r |-> r]
    ELSE ShiftDigits(10 * q + ((10 * r) \div den), (10 * r) % den, den, k - 1)

\* int(d * 10^k): truncation toward zero
TruncScaled(d, k) ==
    LET a == Abs(d.num)
        s == ShiftDigits(a \div d.den, a % d.den, d.den, k)
    IN  IF d.num < 0 THEN -(s.q) ELSE s.q

\* d >= 0 rounded to k decimals, as an integer number of 10^-k units
\* (round to nearest, ties to even, as the format specifier does)
RoundScaled(d, k) ==
    LET s == ShiftDigits(d.num \div d.den, d.num % d.den, d.den, k)
    IN  IF 2 * s.r > d.den THEN s.q + 1
        ELSE IF 2 * s.r = d.den /\ s.q % 2 = 1 THEN s.q + 1
        ELSE s.q

\* ----------------------------------------------------------------- strings
Upper == <<"A","B","C","D","E","F","G","H","I","J","K","L","M",
           "N","O","P","Q","R","S","T","U","V","W","X","Y","Z">>
Letters == <<"a","b","c","d","e","f","g","h","i","j","k","l","m",
             "n","o","p","q","r","s","t","u","v","w","x","y","z">>
LowerChar(c) ==
    IF \E i \in 1..26 : Upper[i] = c
    THEN Letters[CHOOSE i \in 1..26 : Upper[i] = c]
    ELSE c
\* str.lower()
Lower(s) == [i \in 1..Len(s) |-> LowerChar(s[i])]
\* sub in s
Contains(s, sub) ==
    \E i \in 0..(Len(s) - Len(sub)) : SubSeq(s, i + 1, i + Len(sub)) = sub
\* str.isalpha(): non-empty, letters only
IsAlpha(w) ==
    /\ Len(w) > 0
    /\ \A i \in 1..Len(w) : \E j \in 1..26 : Letters[j] = w[i] \/ Upper[j] = w[i]
\* str.split(): the maximal runs of non-blank characters
RECURSIVE SplitFrom(_, _, _)
SplitFrom(s, i, cur) ==
    IF i > Len(s) THEN (IF cur = <<>> THEN <<>> ELSE <<cur>>)
    ELSE IF s[i] = " "
         THEN (IF cur = <<>> THEN <<>> ELSE <<cur>>) \o SplitFrom(s, i + 1, <<>>)
         ELSE SplitFrom(s, i + 1, Append(cur, s[i]))
Split(s) == SplitFrom(s, 1, <<>>)

\* str(n) for an integer n
DigitChars == <<"0","1","2","3","4","5","6","7","8","9">>
RECURSIVE NatDigits(_)
NatDigits(n) ==
    IF n < 10 THEN <<DigitChars[n + 1]>>
    ELSE Append(NatDigits(n \div 10), DigitChars[(n % 10) + 1])
IntDigits(n) == IF n < 0 THEN <<"-">> \o NatDigits(-n) ELSE NatDigits(n)

\* sep.join(parts), parts a sequence of texts and sep a piece
RECURSIVE Join(_, _)
Join(sep, parts) ==
    IF parts = <<>> THEN <<>>
    ELSE IF Len(parts) = 1 THEN parts[1]
    ELSE parts[1] \o <<sep>> \o Join(sep, Tail(parts))

\* list(dict.fromkeys(xs)): distinct elements in first-seen order
RECURSIVE Distinct(_)
Distinct(xs) ==
    IF xs = <<>> THEN <<>>
    ELSE LET init == Distinct(SubSeq(xs, 1, Len(xs) - 1))
             x == xs[Len(xs)]
         IN  IF \E i \in 1..Len(init) : init[i] = x THEN init ELSE Append(init, x)

\* n copies of x
RECURSIVE Rep(_, _)
Rep(x, n) == IF n = 0 THEN <<>> ELSE <<x>> \o Rep(x, n - 1)


\* --------------------------------------------------- distance and side
\* Faulty variant: the two boundaries belong to the sides
choose_side_inclusive(cx, w) ==
    IF cx * 100 <= w * LEFT_FRAC THEN "left"
    ELSE IF cx * 100 >= w * RIGHT_FRAC THEN "right"
    ELSE "center"

\* choose_side(cx, w): cx < w * 0.33 -> left, cx > w * 0.66 -> right
choose_side(cx, w) ==
    IF cx * 100 < w * LEFT_FRAC THEN "left"
    ELSE IF cx * 100 > w * RIGHT_FRAC THEN "right"
    ELSE "center"

\* Faulty variant: centimetres rounded to nearest, and the boundary 1 m
\* printed in centimetres
format_distance_rounded(d) ==
    IF IsNone(d) THEN <<"?">>
    ELSE LET v == Val(d) IN
         IF RatGe(v, Rat(10, 1))
         THEN IntDigits(RoundScaled(v, 0)) \o <<" m">>
         ELSE IF RatGt(v, Rat(1, 1))
         THEN LET t == RoundScaled(v, 1)
              IN  IntDigits(t \div 10) \o <<".">> \o IntDigits(t % 10) \o <<" m">>
         ELSE IntDigits(RoundScaled(v, 2)) \o <<" cm">>

\* format_distance(d), d an optional rational number of metres
format_distance(d) ==
    IF IsNone(d) THEN <<"?">>
    ELSE LET v == Val(d) IN
         IF RatGe(v, Rat(10, 1))
         THEN IntDigits(RoundScaled(v, 0)) \o <<" m">>
         ELSE IF RatGe(v, Rat(1, 1))
         THEN LET t == RoundScaled(v, 1)
              IN  IntDigits(t \div 10) \o <<".">> \o IntDigits(t % 10) \o <<" m">>
         ELSE IntDigits(TruncScaled(v, 2)) \o <<" cm">>

\* Python truthiness of an optional float: None and 0.0 are false
Truthy(d) == ~IsNone(d) /\ Val(d).num # 0
\* Python truthiness of an optional number K
TruthyK(K) == ~IsNone(K) /\ Val(K) # 0

\* ------------------------------------------------------ calibration store
\* The file calib_K.json: absent, unreadable as JSON, or a JSON object with
\* an optional key "K".
FileAbsent == [state |-> "absent", K |-> None]
FileCorrupt == [state |-> "corrupt", K |-> None]
FileJson(K) == [state |-> "json", K |-> K]

\* load_calib_K(): data.get("K", None); any exception gives None
load_calib_K(file) == IF file.state = "json" THEN file.K ELSE None

\* save_calib_K(K): the file becomes {"K": K}
save_calib_K(K) == FileJson(Some(K))

\* Faulty variant: the file is left in place
remove_calib_file_skipped(file) == file

\* os.remove(K_CALIB_FILE) inside try/except: the file is gone afterwards,
\* and a missing file is not an error
remove_calib_file(file) == FileAbsent

\* ------------------------------------------------------------------ frames
S_dog == <<"d","o","g">>
S_cat == <<"c","a","t">>
S_person == <<"p","e","r","s","o","n">>
S_chair == <<"c","h","a","i","r">>

Box(name, x1, y1, x2, y2, conf, id) ==
    [name |-> name, x1 |-> x1, y1 |-> y1, x2 |-> x2, y2 |-> y2,
     conf |-> conf, id |-> id]
Seg(x1, y1, x2, y2) == [x1 |-> x1, y1 |-> y1, x2 |-> x2, y2 |-> y2]

\* What the collaborators return for each uploaded image: whether the bytes
\* decode, the image size, the tracker's boxes (model.track, used by
\* analyze_frame and the question fallback), the detector's boxes (model(),
\* used by calibrate) and the line segments of HoughLinesP (None or a list).
PetBoxes ==
    << Box(S_dog, 10, 100, 90, 200, 90, 1),
       Box(S_dog, 130, 120, 190, 180, 80, 2),
       Box(S_cat, 250, 60, 310, 160, 70, 3) >>
PersonBoxes ==
    << Box(S_chair, 500, 300, 600, 350, 60, 5),
       Box(S_person, 260, 100, 440, 300, 95, 4) >>
Frames ==
    { [id |-> "bad", decodable |-> FALSE, h |-> 0, w |-> 0,
       boxes |-> <<>>, cboxes |-> <<>>, lines |-> None],
      [id |-> "empty", decodable |-> TRUE, h |-> 240, w |-> 320,
       boxes |-> <<>>, cboxes |-> <<>>, lines |-> None],
      [id |-> "pets", decodable |-> TRUE, h |-> 240, w |-> 320,
       boxes |-> PetBoxes, cboxes |-> PetBoxes,
       lines |-> Some(Rep(Seg(40, 20, 45, 200), 12))],
      [id |-> "person", decodable |-> TRUE, h |-> 480, w |-> 640,
       boxes |-> PersonBoxes, cboxes |-> PersonBoxes,
       lines |-> Some(Rep(Seg(100, 50, 400, 60), 7) \o Rep(Seg(320, 10, 320, 300), 4))],
      [id |-> "hall", decodable |-> TRUE, h |-> 240, w |-> 320,
       boxes |-> <<>>, cboxes |-> <<>>,
       lines |-> Some(Rep(Seg(300, 0, 310, 239), 6) \o Rep(Seg(20, 0, 20, 200), 3)
                      \o Rep(Seg(160, 0, 165, 150), 3))],
      [id |-> "ten", decodable |-> TRUE, h |-> 240, w |-> 320,
       boxes |-> <<>>, cboxes |-> <<>>,
       lines |-> Some(Rep(Seg(160, 0, 160, 200), 10))],
      [id |-> "small", decodable |-> TRUE, h |-> 120, w |-> 160,
       boxes |-> <<>>, cboxes |-> <<Box(S_cat, 20, 60, 80, 60, 40, 6)>>,
       lines |-> Some(Rep(Seg(80, 0, 80, 110), 12))] }
FrameIds == {f.id : f \in Frames}
FrameById(id) == CHOOSE f \in Frames : f.id = id

\* The values of the form field distance_m: text that float() parses to v
\* metres, or text that float() rejects.
Num(v) == [numeric |-> TRUE, v |-> v]
DistanceInputs == { Num(-1), Num(0), Num(1), Num(2), Num(3),
                    [numeric |-> FALSE, v |-> 0] }


\* ------------------------------------------------------------------- state
VARIABLES
    clock,              \* the latest reading of time.time()
    K_DEFAULT,          \* optional number: the in-memory calibration constant
    calib_file,         \* the persisted store calib_K.json
    last_caption_time,  \* time of the last scheduled caption generation
    last_wall_alert,    \* time of the last emitted wall alert
    blip_model,         \* "loaded", or "missing" when both loads failed
    req,                \* the request just handled, NoReq when idle
    resp,               \* the response computed for it
    obs,                \* what the handler did while computing it, and the
                        \* history it started from (observation)
    alert_at,           \* history: optional time of the last emitted alert
    gen_at,             \* history: optional time of the last scheduled caption call
    cap_at,             \* history: optional time of the last captioner invocation
    cal,                \* history: optional [D, H] of the calibration in force
    ocr_readers,        \* the reader cache: language tuple -> reader instance
    built,              \* history: language tuple -> number of readers constructed
    threads             \* worker -> the request it is handling and where it is in it

vars == <<clock, K_DEFAULT, calib_file, last_caption_time, last_wall_alert,
          blip_model, req, resp, obs, alert_at, gen_at, cap_at, cal,
          ocr_readers, built, threads>>
ocr_vars == <<ocr_readers, built>>

NoReq == [op |-> "none"]
NoResp == [op |-> "none", status |-> 0]
NoObs == [op |-> "none"]

\* The server of line 898 (app.run, threaded by default) handles each
\* request on a thread of its own; two of them are enough for every
\* interleaving of two requests.  A worker with no request is Resting.
Workers == {"w1", "w2"}
Resting == [op |-> "none", pc |-> "idle"]

\* A store left by an earlier run of the program, or none
InitialFiles == { FileAbsent, FileCorrupt, FileJson(None), FileJson(Some(200)) }

\* ------------------------------------------------------------ reader cache
L_en == <<"e","n">>
L_mr == <<"m","r">>
L_hi == <<"h","i">>
L_xx == <<"x","x">>
OCR_LANG_DEFAULT == <<L_en>>
OCR_PRELOAD_LANG_SETS ==
    << OCR_LANG_DEFAULT, <<L_mr>>, <<L_en, L_mr>>, <<L_hi>>, <<L_en, L_hi>> >>

\* The languages EasyOCR has a model for; easyocr.Reader raises for any
\* other code, and may raise for these too (weights missing, out of memory)
SupportedLangs == {L_en, L_mr, L_hi}
CanBuild(langs) == \A i \in 1..Len(langs) : langs[i] \in SupportedLangs

\* The reader that the n-th successful construction for langs returns
Reader(langs, n) == [langs |-> langs, serial |-> n]
BuiltCount(b, key) == IF key \in DOMAIN b THEN b[key] ELSE 0
WithEntry(f, key, v) == [k \in DOMAIN f \cup {key} |-> IF k = key THEN v ELSE f[k]]

\* lines 96-105: the cache after the preload loop has tried the first n
\* language sets, ok being the indices whose construction succeeds
RECURSIVE preload(_, _)
preload(n, ok) ==
    IF n = 0 THEN << >>
    ELSE LET before == preload(n - 1, ok)
             key == OCR_PRELOAD_LANG_SETS[n]
         IN  IF n \in ok THEN WithEntry(before, key, Reader(key, 1)) ELSE before
PreloadOutcomes ==
    { preload(Len(OCR_PRELOAD_LANG_SETS), ok) :
        ok \in SUBSET (1..Len(OCR_PRELOAD_LANG_SETS)) }
PreloadAll ==
    preload(Len(OCR_PRELOAD_LANG_SETS), 1..Len(OCR_PRELOAD_LANG_SETS))

\* Faulty variant: the constructed reader is returned but not cached
get_ocr_reader_uncached(langs, readers, b, ok) ==
    IF langs \in DOMAIN readers
    THEN [reader |-> Some(readers[langs]), readers |-> readers, built |-> b,
          attempted |-> FALSE]
    ELSE IF ok
    THEN [reader |-> Some(Reader(langs, BuiltCount(b, langs) + 1)),
          readers |-> readers,
          built |-> WithEntry(b, langs, BuiltCount(b, langs) + 1),
          attempted |-> TRUE]
    ELSE [reader |-> None, readers |-> readers, built |-> b, attempted |-> TRUE]

\* Faulty variant: a failed construction leaves an entry behind
get_ocr_reader_caches_failure(langs, readers, b, ok) ==
    IF langs \in DOMAIN readers
    THEN [reader |-> Some(readers[langs]), readers |-> readers, built |-> b,
          attempted |-> FALSE]
    ELSE LET r == Reader(langs, BuiltCount(b, langs) + 1)
         IN  [reader |-> IF ok THEN Some(r) ELSE None,
              readers |-> WithEntry(readers, langs, r),
              built |-> IF ok THEN WithEntry(b, langs, BuiltCount(b, langs) + 1) ELSE b,
              attempted |-> TRUE]

\* get_ocr_reader(langs): ok tells whether easyocr.Reader(langs) succeeds
\* if it is called
get_ocr_reader(langs, readers, b, ok) ==
    IF langs \in DOMAIN readers
    THEN [reader |-> Some(readers[langs]), readers |-> readers, built |-> b,
          attempted |-> FALSE]
    ELSE IF ok
    THEN LET r == Reader(langs, BuiltCount(b, langs) + 1)
         IN  [reader |-> Some(r),
              readers |-> WithEntry(readers, langs, r),
              built |-> WithEntry(b, langs, BuiltCount(b, langs) + 1),
              attempted |-> TRUE]
    ELSE [reader |-> None, readers |-> readers, built |-> b, attempted |-> TRUE]

\* Module load (lines 96-105, 135-140) and __main__ (lines 886-892), the
\* store being one of files and the preloaded cache one of caches
InitWith(files, caches) ==
    /\ threads = [w \in Workers |-> Resting]
    /\ clock = StartTime
    /\ calib_file \in files
    /\ ocr_readers \in caches
    /\ built = [k \in DOMAIN ocr_readers |-> 1]
    /\ K_DEFAULT = load_calib_K(calib_file)
    /\ last_caption_time = 0
    /\ last_wall_alert = 0
    /\ blip_model \in {"loaded", "missing"}
    /\ req = NoReq
    /\ resp = NoResp
    /\ obs = NoObs
    /\ alert_at = None
    /\ gen_at = None
    /\ cap_at = None
    /\ cal = None

\* The specifications that never call the reader cache start with every
\* preload succeeded.
Init == InitWith(InitialFiles, {PreloadAll})

Error(op, status, msg) == [op |-> op, status |-> status, error |-> msg]

\* ------------------------------------------------------------- calibrate
Height(b) == b.y2 - b.y1

\* Faulty variant: the height of the first box instead of the greatest
best_height_first(boxes, best_h) ==
    IF boxes = <<>> THEN best_h
    ELSE IF Height(boxes[1]) > best_h THEN Height(boxes[1]) ELSE best_h

\* lines 627-633: the greatest height found, starting from 0
RECURSIVE best_height(_, _)
best_height(boxes, best_h) ==
    IF boxes = <<>> THEN best_h
    ELSE best_height(Tail(boxes),
                     IF Height(boxes[1]) > best_h THEN Height(boxes[1]) ELSE best_h)

\* line 638
calib_K(dist_m, best_h) == dist_m * best_h

\* Faulty variant: K is computed and stored before the height is validated
calibrate_handler_eager(frame, distance_m, K, file) ==
    LET keep(r) == [K |-> K, file |-> file, resp |-> r] IN
    IF IsNone(frame) \/ IsNone(distance_m)
    THEN keep(Error("calibrate", 400, "Missing frame or distance_m"))
    ELSE IF ~Val(distance_m).numeric
    THEN keep(Error("calibrate", 500, "could not convert string to float"))
    ELSE IF ~FrameById(Val(frame)).decodable
    THEN keep(Error("calibrate", 400, "Invalid image"))
    ELSE LET dist_m == Val(distance_m).v
             best_h == best_height(FrameById(Val(frame)).cboxes, 0)
             newK == calib_K(dist_m, best_h)
         IN  IF best_h <= 0
             THEN [K |-> Some(newK), file |-> save_calib_K(newK),
                   resp |-> Error("calibrate", 400, "No object detected for calibration")]
             ELSE [K |-> Some(newK),
                   file |-> save_calib_K(newK),
                   resp |-> [op |-> "calibrate", status |-> 200, success |-> TRUE,
                             K |-> newK, bbox_height |-> best_h,
                             distance_m |-> dist_m]]

\* calibrate(): the new K_DEFAULT, the new file and the response, for a
\* request with optional frame and optional distance_m
calibrate_handler(frame, distance_m, K, file) ==
    LET keep(r) == [K |-> K, file |-> file, resp |-> r] IN
    IF IsNone(frame) \/ IsNone(distance_m)
    THEN keep(Error("calibrate", 400, "Missing frame or distance_m"))
    ELSE IF ~Val(distance_m).numeric
    THEN keep(Error("calibrate", 500, "could not convert string to float"))
    ELSE IF ~FrameById(Val(frame)).decodable
    THEN keep(Error("calibrate", 400, "Invalid image"))
    ELSE LET dist_m == Val(distance_m).v
             best_h == best_height(FrameById(Val(frame)).cboxes, 0)
         IN  IF best_h <= 0
             THEN keep(Error("calibrate", 400, "No object detected for calibration"))
             ELSE LET newK == calib_K(dist_m, best_h)
                  IN  [K |-> Some(newK),
                       file |-> save_calib_K(newK),
                       resp |-> [op |-> "calibrate", status |-> 200, success |-> TRUE,
                                 K |-> newK, bbox_height |-> best_h,
                                 distance_m |-> dist_m]]

\* The calibration now in force, from the request alone: the known distance
\* and the greatest height among the detector's boxes
MaxHeight(boxes) == CHOOSE m \in {Height(boxes[i]) : i \in 1..Len(boxes)} :
                        \A i \in 1..Len(boxes) : Height(boxes[i]) <= m

\* get_calib_K()
get_calib_K_response(K) ==
    [op |-> "get_calib_K", status |-> 200, K |-> K, is_calibrated |-> ~IsNone(K)]

\* reset_calib()
reset_calib_response == [op |-> "reset_calib", status |-> 200, success |-> TRUE, K |-> None]

\* ------------------------------------------------------------- captioner
S_wall == <<"w","a","l","l">>
S_barrier == <<"b","a","r","r","i","e","r">>
S_close == <<"c","l","o","s","e">>
S_near == <<"n","e","a","r">>

\* Texts BLIP-2 may decode: "a room", "A Wall is close", "a barrier"
CaptionTexts ==
    { <<"a"," ","r","o","o","m">>,
      <<"A"," ","W","a","l","l"," ","i","s"," ","c","l","o","s","e">>,
      <<"a"," ","b","a","r","r","i","e","r">> }

\* blip_caption(frame): None when the model is missing or generation raises,
\* else the decoded text
BlipCaptionOutcomes(model) ==
    IF model = "missing" THEN {None}
    ELSE {None} \cup {Some(c) : c \in CaptionTexts}

\* ------------------------------------------------------------ detections
\* Faulty variant: the distance taken from the width of the box
detection_of_width(b, w, K) ==
    LET bh == Height(b)
        dist_m == IF TruthyK(K) THEN Some(DivEps(Val(K), b.x2 - b.x1)) ELSE None
        cx == (b.x1 + b.x2) \div 2
    IN  [class |-> b.name, confidence |-> b.conf,
         bbox |-> <<b.x1, b.y1, b.x2, b.y2>>, track_id |-> b.id,
         distance |-> dist_m, distance_str |-> format_distance(dist_m),
         side |-> choose_side(cx, w), cx |-> cx, cy |-> (b.y1 + b.y2) \div 2,
         bbox_height |-> bh]

\* simple_detection_facts(frame): one record per tracked box
detection_of(b, w, K) ==
    LET bh == Height(b)
        dist_m == IF TruthyK(K) THEN Some(DivEps(Val(K), bh)) ELSE None
        cx == (b.x1 + b.x2) \div 2
    IN  [class |-> b.name, confidence |-> b.conf,
         bbox |-> <<b.x1, b.y1, b.x2, b.y2>>, track_id |-> b.id,
         distance |-> dist_m, distance_str |-> format_distance(dist_m),
         side |-> choose_side(cx, w), cx |-> cx, cy |-> (b.y1 + b.y2) \div 2,
         bbox_height |-> bh]

simple_detection_facts(frame, K) ==
    [i \in 1..Len(frame.boxes) |-> detection_of(frame.boxes[i], frame.w, K)]

\* sorted(detections, key=bbox_height, reverse=True): stable, tallest first
RECURSIVE InsertDesc(_, _)
InsertDesc(sorted, x) ==
    IF sorted = <<>> THEN <<x>>
    ELSE IF sorted[1].bbox_height >= x.bbox_height
         THEN <<sorted[1]>> \o InsertDesc(Tail(sorted), x)
         ELSE <<x>> \o sorted
RECURSIVE SortDesc(_)
SortDesc(xs) ==
    IF xs = <<>> THEN <<>>
    ELSE InsertDesc(SortDesc(SubSeq(xs, 1, Len(xs) - 1)), xs[Len(xs)])

\* navigation_caption_from_detections(detections)
nav_phrase(det) ==
    IF det.distance_str # <<>> /\ det.distance_str # <<"?">>
    THEN det.class \o <<" ">> \o det.distance_str \o <<" on your ", det.side>>
    ELSE det.class \o <<" on your ", det.side>>

navigation_caption_from_detections(detections) ==
    IF detections = <<>> THEN <<"I don't see clear obstacles right now.">>
    ELSE LET ordered == SortDesc(detections)
             top == SubSeq(ordered, 1, IF Len(ordered) < 4 THEN Len(ordered) ELSE 4)
             phrases == [i \in 1..Len(top) |-> nav_phrase(top[i])]
         IN  <<"Navigation: ">> \o Join("; ", phrases) \o <<".">>

\* --------------------------------------------------------- wall heuristic
\* Faulty variant: ten segments are already enough for a hypothesis
wall_geometry_at_least_10(frame, K) ==
    LET h == frame.h
        w == frame.w
        none == [detected |-> FALSE, distance |-> None, position |-> "center"]
    IN  IF IsNone(frame.lines) \/ ~(Len(Val(frame.lines)) >= 10) THEN none
        ELSE LET lines == Val(frame.lines)
                 region_height == ((2 * h) \div 3) - (h \div 3)
             IN  IF ~(region_height > 50) THEN none
                 ELSE LET wall_distance == Some(DivEps(Val(K), region_height))
                          IsVertical(l) == Abs(l.x2 - l.x1) < 20
                          vertical_lines == SelectSeq(lines, IsVertical)
                          center_x == w \div 2
                          IsLeft(l) == l.x1 + l.x2 < 2 * (center_x - (w \div 6))
                          IsRight(l) == l.x1 + l.x2 > 2 * (center_x + (w \div 6))
                          left_count == Len(SelectSeq(vertical_lines, IsLeft))
                          right_count == Len(SelectSeq(vertical_lines, IsRight))
                      IN  IF Len(vertical_lines) > 5
                          THEN [detected |-> TRUE, distance |-> wall_distance,
                                position |-> IF left_count > right_count THEN "left"
                                             ELSE IF right_count > left_count THEN "right"
                                             ELSE "center"]
                          ELSE [detected |-> FALSE, distance |-> wall_distance,
                                position |-> "center"]

\* lines 271-305: the geometric analysis, [detected, distance, position]
wall_geometry(frame, K) ==
    LET h == frame.h
        w == frame.w
        none == [detected |-> FALSE, distance |-> None, position |-> "center"]
    IN  IF IsNone(frame.lines) \/ ~(Len(Val(frame.lines)) > 10) THEN none
        ELSE LET lines == Val(frame.lines)
                 region_height == ((2 * h) \div 3) - (h \div 3)
             IN  IF ~(region_height > 50) THEN none
                 ELSE LET wall_distance == Some(DivEps(Val(K), region_height))
                          IsVertical(l) == Abs(l.x2 - l.x1) < 20
                          vertical_lines == SelectSeq(lines, IsVertical)
                          center_x == w \div 2
                          IsLeft(l) == l.x1 + l.x2 < 2 * (center_x - (w \div 6))
                          IsRight(l) == l.x1 + l.x2 > 2 * (center_x + (w \div 6))
                          left_count == Len(SelectSeq(vertical_lines, IsLeft))
                          right_count == Len(SelectSeq(vertical_lines, IsRight))
                      IN  IF Len(vertical_lines) > 5
                          THEN [detected |-> TRUE, distance |-> wall_distance,
                                position |-> IF left_count > right_count THEN "left"
                                             ELSE IF right_count > left_count THEN "right"
                                             ELSE "center"]
                          ELSE [detected |-> FALSE, distance |-> wall_distance,
                                position |-> "center"]

\* Faulty variant: "close" or "near" sets 1.5 m whatever the estimate is
wall_fusion_always_clamps(geo, blip_wall_check) ==
    IF ~IsNone(blip_wall_check) /\ Val(blip_wall_check) # <<>>
       /\ (Contains(Lower(Val(blip_wall_check)), S_wall)
           \/ Contains(Lower(Val(blip_wall_check)), S_barrier))
    THEN LET text == Lower(Val(blip_wall_check))
             up == IF ~geo.detected
                   THEN [geo EXCEPT !.detected = TRUE, !.position = "ahead"]
                   ELSE geo
         IN  IF Contains(text, S_close) \/ Contains(text, S_near)
             THEN [up EXCEPT !.distance = Some(Rat(3, 2))]
             ELSE up
    ELSE geo

\* lines 307-316: corroboration by the caption text
wall_fusion(geo, blip_wall_check) ==
    IF ~IsNone(blip_wall_check) /\ Val(blip_wall_check) # <<>>
       /\ (Contains(Lower(Val(blip_wall_check)), S_wall)
           \/ Contains(Lower(Val(blip_wall_check)), S_barrier))
    THEN LET text == Lower(Val(blip_wall_check))
             up == IF ~geo.detected
                   THEN [geo EXCEPT !.detected = TRUE, !.position = "ahead"]
                   ELSE geo
         IN  IF (Contains(text, S_close) \/ Contains(text, S_near))
                /\ (IsNone(up.distance) \/ RatGt(Val(up.distance), Rat(2, 1)))
             THEN [up EXCEPT !.distance = Some(Rat(3, 2))]
             ELSE up
    ELSE geo

wall_info_of(r) ==
    [detected |-> r.detected, distance |-> r.distance,
     distance_str |-> IF Truthy(r.distance) THEN format_distance(r.distance) ELSE <<"?">>,
     position |-> r.position]

\* detect_wall_and_distance(frame): blip_wall_check is what blip_caption
\* returns when the function reaches line 308
detect_wall_and_distance(frame, K, blip_wall_check) ==
    IF IsNone(K)
    THEN [detected |-> FALSE, distance |-> None, distance_str |-> <<"?">>,
          position |-> "unknown"]
    ELSE wall_info_of(wall_fusion(wall_geometry(frame, K), blip_wall_check))

\* Faulty variant: the caption corroboration runs without a calibration too
wall_invokes_captioner_always(K) == TRUE

\* Does detect_wall_and_distance call blip_caption?  (line 253 returns early)
wall_invokes_captioner(K) == ~IsNone(K)


\* ---------------------------------------------------------- analyze_frame
\* Faulty variant: the interval test taken as "at least"
caption_due_at_least(now, last) == now - last >= CAPTION_INTERVAL

\* line 491: now - last_caption_time > CAPTION_INTERVAL
caption_due(now, last) == now - last > CAPTION_INTERVAL

\* Faulty variant: the cooldown test taken as "more than"
cooldown_elapsed_strict(now, last) == now - last > WALL_ALERT_COOLDOWN

\* line 506: (now - last_wall_alert) >= WALL_ALERT_COOLDOWN
cooldown_elapsed(now, last) == now - last >= WALL_ALERT_COOLDOWN

\* lines 495-498 and 541: the caption of the response
compose_caption(blip_text, nav_caption) ==
    LET has_blip == ~IsNone(blip_text) /\ Val(blip_text) # <<>>
        caption == IF has_blip THEN Val(blip_text) ELSE nav_caption
    IN  IF has_blip /\ nav_caption # <<>>
        THEN Val(blip_text) \o <<" ">> \o nav_caption
        ELSE caption

\* Faulty variant: only the "stop immediately" alerts are urgent
tiered_alert_urgent_below_1(wall_info) ==
    LET wall_distance == Val(wall_info.distance)
        wall_pos == wall_info.position
        alert_msg ==
            IF RatLt(wall_distance, Rat(1, 1))
            THEN <<"[!] WALL VERY CLOSE! ">> \o wall_info.distance_str
                 \o <<" ahead on your ", wall_pos, ". Stop immediately!">>
            ELSE IF RatLt(wall_distance, Rat(2, 1))
            THEN <<"[!] Wall detected ">> \o wall_info.distance_str
                 \o <<" ahead on your ", wall_pos, ". Slow down.">>
            ELSE <<"Wall ahead ">> \o wall_info.distance_str
                 \o <<" on your ", wall_pos, ".">>
    IN  [message |-> alert_msg, distance |-> wall_info.distance,
         distance_str |-> wall_info.distance_str, position |-> wall_pos,
         urgent |-> RatLt(wall_distance, Rat(1, 1))]

\* lines 510-524: the alert of a wall nearer than 3 metres
tiered_alert(wall_info) ==
    LET wall_distance == Val(wall_info.distance)
        wall_pos == wall_info.position
        alert_msg ==
            IF RatLt(wall_distance, Rat(1, 1))
            THEN <<"[!] WALL VERY CLOSE! ">> \o wall_info.distance_str
                 \o <<" ahead on your ", wall_pos, ". Stop immediately!">>
            ELSE IF RatLt(wall_distance, Rat(2, 1))
            THEN <<"[!] Wall detected ">> \o wall_info.distance_str
                 \o <<" ahead on your ", wall_pos, ". Slow down.">>
            ELSE <<"Wall ahead ">> \o wall_info.distance_str
                 \o <<" on your ", wall_pos, ".">>
    IN  [message |-> alert_msg, distance |-> wall_info.distance,
         distance_str |-> wall_info.distance_str, position |-> wall_pos,
         urgent |-> RatLt(wall_distance, Rat(3, 2))]

\* lines 526-534: the alert of a wall that is far away or of unknown distance
far_alert(wall_info) ==
    [message |-> <<"Wall detected ahead on your ", wall_info.position, ".">>,
     distance |-> wall_info.distance, distance_str |-> wall_info.distance_str,
     position |-> wall_info.position, urgent |-> FALSE]

\* Faulty variant: no alert, and no new timestamp, for a wall 3 metres away or more
wall_alert_step_near_only(wall_info, now, last) ==
    IF wall_info.detected /\ cooldown_elapsed(now, last)
       /\ Truthy(wall_info.distance) /\ RatLt(Val(wall_info.distance), Rat(3, 1))
    THEN [wall_alert |-> Some(tiered_alert(wall_info)), last |-> now]
    ELSE [wall_alert |-> None, last |-> last]

\* Faulty variant: only an urgent alert restarts the cooldown
wall_alert_step_urgent_resets(wall_info, now, last) ==
    IF wall_info.detected /\ cooldown_elapsed(now, last)
    THEN IF Truthy(wall_info.distance) /\ RatLt(Val(wall_info.distance), Rat(3, 1))
         THEN [wall_alert |-> Some(tiered_alert(wall_info)),
               last |-> IF tiered_alert(wall_info).urgent THEN now ELSE last]
         ELSE [wall_alert |-> Some(far_alert(wall_info)), last |-> last]
    ELSE [wall_alert |-> None, last |-> last]

\* lines 502-535: the alert and the new last_wall_alert
wall_alert_step(wall_info, now, last) ==
    IF wall_info.detected /\ cooldown_elapsed(now, last)
    THEN IF Truthy(wall_info.distance) /\ RatLt(Val(wall_info.distance), Rat(3, 1))
         THEN [wall_alert |-> Some(tiered_alert(wall_info)), last |-> now]
         ELSE IF wall_info.detected
         THEN [wall_alert |-> Some(far_alert(wall_info)), last |-> now]
         ELSE [wall_alert |-> None, last |-> last]
    ELSE [wall_alert |-> None, last |-> last]

\* analyze_frame(): now1 and now2 are the clock readings of lines 489 and
\* 505, c1 and c2 what blip_caption returns at lines 492 and 308 if called
analyze_frame_handler(frame, now1, now2, c1, c2, K, last_caption, last_alert) ==
    LET early(msg) ==
            [last_caption |-> last_caption, last_alert |-> last_alert,
             resp |-> Error("analyze_frame", 400, msg),
             scheduled |-> FALSE, corroborated |-> FALSE, blip_text |-> None]
    IN
    IF IsNone(frame) THEN early("No frame provided")
    ELSE IF ~FrameById(Val(frame)).decodable THEN early("Invalid image")
    ELSE LET f == FrameById(Val(frame))
             detections == simple_detection_facts(f, K)
             due == caption_due(now1, last_caption)
             blip_text == IF due THEN c1 ELSE None
             nav_caption == navigation_caption_from_detections(detections)
             caption == compose_caption(blip_text, nav_caption)
             wall_info == detect_wall_and_distance(f, K, c2)
             a == wall_alert_step(wall_info, now2, last_alert)
         IN  [last_caption |-> IF due THEN now1 ELSE last_caption,
              last_alert |-> a.last,
              resp |-> [op |-> "analyze_frame", status |-> 200,
                        detections |-> detections, caption |-> caption,
                        navigation_caption |-> nav_caption,
                        has_objects |-> Len(detections) > 0,
                        K_value |-> K, wall_alert |-> a.wall_alert,
                        wall_info |-> wall_info],
              scheduled |-> due,
              corroborated |-> wall_invokes_captioner(K),
              blip_text |-> blip_text]

\* The steps of analyze_frame at which a collaborator can raise: the
\* tracker (line 474), OpenCV inside detect_wall_and_distance (lines
\* 256-265, reached when K is set), the encoding of the response (lines
\* 537-548).  blip_caption catches its own exceptions.
FaultPoints == {"detection", "wall", "encode"}

\* analyze_frame() with an exception raised at the step `fault` ("none": no
\* exception): the assignments made before the raise stay, lines 550-552
\* answer 500.  reached_alert tells whether line 505 read the clock.
analyze_frame_with_fault(frame, now1, now2, c1, c2, K, last_caption, last_alert, fault) ==
    LET o == analyze_frame_handler(frame, now1, now2, c1, c2, K, last_caption, last_alert)
        failed == Error("analyze_frame", 500, "unexpected error")
    IN  IF o.resp.status # 200 \/ fault = "none" \/ (fault = "wall" /\ IsNone(K))
        THEN [last_caption |-> o.last_caption, last_alert |-> o.last_alert,
              resp |-> o.resp, scheduled |-> o.scheduled,
              corroborated |-> o.corroborated, reached_alert |-> o.resp.status = 200]
        ELSE IF fault = "detection"
        THEN [last_caption |-> last_caption, last_alert |-> last_alert,
              resp |-> failed, scheduled |-> FALSE, corroborated |-> FALSE,
              reached_alert |-> FALSE]
        ELSE IF fault = "wall"
        THEN [last_caption |-> o.last_caption, last_alert |-> last_alert,
              resp |-> failed, scheduled |-> o.scheduled, corroborated |-> FALSE,
              reached_alert |-> FALSE]
        ELSE [last_caption |-> o.last_caption, last_alert |-> o.last_alert,
              resp |-> failed, scheduled |-> o.scheduled,
              corroborated |-> o.corroborated, reached_alert |-> TRUE]

\* ------------------------------------------------------------- questions
S_how_many == <<"h","o","w"," ","m","a","n","y">>
S_count == <<"c","o","u","n","t">>
S_number_of == <<"n","u","m","b","e","r"," ","o","f">>
S_how == <<"h","o","w">>
S_many == <<"m","a","n","y">>
S_of == <<"o","f">>
S_what_is_here == <<"w","h","a","t"," ","i","s"," ","h","e","r","e">>
S_what_do_you_see == <<"w","h","a","t"," ","d","o"," ","y","o","u"," ","s","e","e">>
S_what_is_around == <<"w","h","a","t"," ","i","s"," ","a","r","o","u","n","d">>
S_describe == <<"d","e","s","c","r","i","b","e">>
S_left == <<"l","e","f","t">>
S_right == <<"r","i","g","h","t">>
S_front == <<"f","r","o","n","t">>
S_doing == <<"d","o","i","n","g">>
S_action == <<"a","c","t","i","o","n">>
S_activity == <<"a","c","t","i","v","i","t","y">>
S_not_loaded == <<"n","o","t"," ","l","o","a","d","e","d">>
\* "Q&A unavailable - BLIP-2 model not loaded"
S_unavailable ==
    <<"Q","&","A"," ","u","n","a","v","a","i","l","a","b","l","e"," ","-"," ",
      "B","L","I","P","-","2"," ","m","o","d","e","l"," ","n","o","t"," ",
      "l","o","a","d","e","d">>
\* "Unable to answer due to model error: "
S_model_error ==
    <<"U","n","a","b","l","e"," ","t","o"," ","a","n","s","w","e","r"," ",
      "d","u","e"," ","t","o"," ","m","o","d","e","l"," ","e","r","r","o","r",":"," ">>

\* Questions: "how many dogs", "How many dog", "count the cat",
\* "what is on my left", "where am i", "describe it", "who is doing what",
\* "how many" (a counting cue and no target), "describe how many" (two cues)
Q_how_many == <<"h","o","w"," ","m","a","n","y">>
Q_describe_how_many ==
    <<"d","e","s","c","r","i","b","e"," ","h","o","w"," ","m","a","n","y">>
Q_how_many_dogs == <<"h","o","w"," ","m","a","n","y"," ","d","o","g","s">>
Q_how_many_dog == <<"H","o","w"," ","m","a","n","y"," ","d","o","g">>
Questions ==
    { Q_how_many_dogs, Q_how_many_dog, Q_how_many, Q_describe_how_many,
      <<"c","o","u","n","t"," ","t","h","e"," ","c","a","t">>,
      <<"w","h","a","t"," ","i","s"," ","o","n"," ","m","y"," ","l","e","f","t">>,
      <<"w","h","e","r","e"," ","a","m"," ","i">>,
      <<"d","e","s","c","r","i","b","e"," ","i","t">>,
      <<"w","h","o"," ","i","s"," ","d","o","i","n","g"," ","w","h","a","t">> }

\* Texts BLIP-2 may decode as an answer ("a dog", "truck not loaded") and a
\* message of an exception raised while it runs ("CUDA out of memory")
AnswerTexts ==
    { <<"a"," ","d","o","g">>,
      <<"t","r","u","c","k"," ","n","o","t"," ","l","o","a","d","e","d">> }
ErrorTexts == { <<"C","U","D","A"," ","o","u","t"," ","o","f"," ","m","e","m","o","r","y">> }

\* blip_qa(frame, question): the sentinel when the model is missing, the
\* decoded answer, or the error text when generation raises
BlipQaOutcomes(model) ==
    IF model = "missing" THEN {S_unavailable}
    ELSE AnswerTexts \cup {S_model_error \o SubSeq(e, 1, IF Len(e) < 50 THEN Len(e) ELSE 50) :
                           e \in ErrorTexts}

\* Faulty variant: the stoplist is not consulted
RECURSIVE first_target_no_stoplist(_)
first_target_no_stoplist(words) ==
    IF words = <<>> THEN None
    ELSE IF IsAlpha(words[1])
         THEN Some(words[1])
         ELSE first_target_no_stoplist(Tail(words))

\* lines 404-409: the first alphabetic word outside the stoplist, if any
RECURSIVE first_target(_)
first_target(words) ==
    IF words = <<>> THEN None
    ELSE IF IsAlpha(words[1]) /\ words[1] \notin {S_how, S_many, S_count, S_of}
         THEN Some(words[1])
         ELSE first_target(Tail(words))

\* lines 411-412
count_answer(target, detections) ==
    LET hit(d) == Contains(Lower(d.class), target)
        count == Len(SelectSeq(detections, hit))
    IN  <<"I can see ">> \o IntDigits(count) \o <<" ">> \o target \o <<"(s).">>

ClassesOn(detections, side) ==
    LET on(d) == d.side = side
        ds == SelectSeq(detections, on)
    IN  Distinct([i \in 1..Len(ds) |-> ds[i].class])

\* lines 415-423
side_answer(detections) ==
    LET left == ClassesOn(detections, "left")
        center == ClassesOn(detections, "center")
        right == ClassesOn(detections, "right")
        parts == (IF left # <<>> THEN << <<"On your left: ">> \o Join(", ", left) >> ELSE <<>>)
                 \o (IF center # <<>> THEN << <<"In front: ">> \o Join(", ", center) >> ELSE <<>>)
                 \o (IF right # <<>> THEN << <<"On your right: ">> \o Join(", ", right) >> ELSE <<>>)
    IN  IF parts # <<>> THEN Join("; ", parts)
        ELSE <<"I don't have a clear side-based view yet.">>

\* Faulty variant: the counting rule is tried before the descriptive rule
qa_from_detections_counting_first(question, detections) ==
    LET q == Lower(question)
        target == first_target(Split(q))
        isPerson(d) == Lower(d.class) = S_person
    IN
    IF detections = <<>> THEN <<"I don't see anything clearly in view.">>
    ELSE IF (\E k \in {S_how_many, S_count, S_number_of} : Contains(q, k)) /\ ~IsNone(target)
    THEN count_answer(Val(target), detections)
    ELSE IF \E k \in {S_what_is_here, S_what_do_you_see, S_what_is_around, S_describe} :
                Contains(q, k)
    THEN <<"I see: ">>
         \o Join(", ", Distinct([i \in 1..Len(detections) |-> detections[i].class]))
         \o <<".">>
    ELSE IF Contains(q, S_left) \/ Contains(q, S_right) \/ Contains(q, S_front)
    THEN side_answer(detections)
    ELSE IF Contains(q, S_doing) \/ Contains(q, S_action) \/ Contains(q, S_activity)
    THEN IF SelectSeq(detections, isPerson) # <<>>
         THEN <<"I can see people, but I cannot determine their exact action from detections alone.">>
         ELSE <<"I cannot tell the action; I only see objects, no clear people detected.">>
    ELSE navigation_caption_from_detections(detections)

\* qa_from_detections(question, detections)
qa_from_detections(question, detections) ==
    LET q == Lower(question)
        target == first_target(Split(q))
        isPerson(d) == Lower(d.class) = S_person
    IN
    IF detections = <<>> THEN <<"I don't see anything clearly in view.">>
    ELSE IF \E k \in {S_what_is_here, S_what_do_you_see, S_what_is_around, S_describe} :
                Contains(q, k)
    THEN <<"I see: ">>
         \o Join(", ", Distinct([i \in 1..Len(detections) |-> detections[i].class]))
         \o <<".">>
    ELSE IF (\E k \in {S_how_many, S_count, S_number_of} : Contains(q, k)) /\ ~IsNone(target)
    THEN count_answer(Val(target), detections)
    ELSE IF Contains(q, S_left) \/ Contains(q, S_right) \/ Contains(q, S_front)
    THEN side_answer(detections)
    ELSE IF Contains(q, S_doing) \/ Contains(q, S_action) \/ Contains(q, S_activity)
    THEN IF SelectSeq(detections, isPerson) # <<>>
         THEN <<"I can see people, but I cannot determine their exact action from detections alone.">>
         ELSE <<"I cannot tell the action; I only see objects, no clear people detected.">>
    ELSE navigation_caption_from_detections(detections)

\* Faulty variant: the delegate's text is always the answer
ask_question_handler_no_fallback(frame, question, a, K) ==
    IF IsNone(frame) \/ IsNone(question)
    THEN [resp |-> Error("question", 400, "Missing frame or question"), fallback |-> FALSE]
    ELSE IF ~FrameById(Val(frame)).decodable
    THEN [resp |-> Error("question", 400, "Invalid image"), fallback |-> FALSE]
    ELSE [resp |-> [op |-> "question", status |-> 200, question |-> Val(question),
                    answer |-> a],
          fallback |-> FALSE]

\* ask_question(): a is what blip_qa returns
ask_question_handler(frame, question, a, K) ==
    IF IsNone(frame) \/ IsNone(question)
    THEN [resp |-> Error("question", 400, "Missing frame or question"), fallback |-> FALSE]
    ELSE IF ~FrameById(Val(frame)).decodable
    THEN [resp |-> Error("question", 400, "Invalid image"), fallback |-> FALSE]
    ELSE LET blip_missing == Contains(Lower(a), S_not_loaded)
             detections == simple_detection_facts(FrameById(Val(frame)), K)
         IN  [resp |-> [op |-> "question", status |-> 200, question |-> Val(question),
                        answer |-> IF blip_missing
                                   THEN qa_from_detections(Val(question), detections)
                                   ELSE a],
              fallback |-> blip_missing]


\* -------------------------------------------------------------------- ocr
\* s.split(","): the pieces of s between commas
RECURSIVE SplitCommaFrom(_, _, _)
SplitCommaFrom(s, i, cur) ==
    IF i > Len(s) THEN <<cur>>
    ELSE IF s[i] = "," THEN <<cur>> \o SplitCommaFrom(s, i + 1, <<>>)
    ELSE SplitCommaFrom(s, i + 1, Append(cur, s[i]))
SplitComma(s) == SplitCommaFrom(s, 1, <<>>)

\* s.strip(): s without its leading and trailing blanks
RECURSIVE Strip(_)
Strip(s) ==
    IF s = <<>> THEN s
    ELSE IF s[1] = " " THEN Strip(Tail(s))
    ELSE IF s[Len(s)] = " " THEN Strip(SubSeq(s, 1, Len(s) - 1))
    ELSE s

\* lines 683-686: the language list of a request, langs_raw being the form
\* field "langs" ("" when absent)
parse_langs(langs_raw) ==
    LET pieces == SplitComma(langs_raw)
        stripped == [i \in 1..Len(pieces) |-> Strip(pieces[i])]
        NonEmpty(t) == t # <<>>
        given == SelectSeq(stripped, NonEmpty)
        langs == IF given # <<>> THEN given ELSE OCR_LANG_DEFAULT
    IN  SubSeq(langs, 1, IF Len(langs) < 3 THEN Len(langs) ELSE 3)

\* The form field "langs": absent, "en", "mr, en", "xx", " ,en," and
\* "en,mr,hi,xx"
LangInputs ==
    { None,
      Some(<<"e","n">>),
      Some(<<"m","r",","," ","e","n">>),
      Some(<<"x","x">>),
      Some(<<" ",",","e","n",",">>),
      Some(<<"e","n",",","m","r",",","h","i",",","x","x">>) }

\* What reader.readtext finds: the text of each line
OcrTexts == { <<>>, << <<"E","X","I","T">> >> }

\* "\n".join(lines).strip()
RECURSIVE JoinLines(_)
JoinLines(lines) ==
    IF lines = <<>> THEN <<>>
    ELSE IF Len(lines) = 1 THEN lines[1]
    ELSE lines[1] \o <<"\n">> \o JoinLines(Tail(lines))

\* ocr(): ok is the outcome of easyocr.Reader if it is called, lines what
\* reader.readtext returns
ocr_handler(frame, langs_raw, ok, lines, readers, b) ==
    IF IsNone(frame)
    THEN [readers |-> readers, built |-> b, attempted |-> FALSE, reader |-> None,
          resp |-> Error("ocr", 400, "No frame provided")]
    ELSE LET langs == parse_langs(IF IsNone(langs_raw) THEN <<>> ELSE Val(langs_raw))
             got == get_ocr_reader(langs, readers, b, ok)
             out(r) == [readers |-> got.readers, built |-> got.built,
                           attempted |-> got.attempted, reader |-> got.reader,
                           resp |-> r]
         IN  IF IsNone(got.reader)
             THEN out([op |-> "ocr", status |-> 503,
                       error |-> "OCR unavailable for languages: ",
                       languages |-> langs])
             ELSE IF ~FrameById(Val(frame)).decodable
             THEN out(Error("ocr", 400, "Invalid image"))
             ELSE out([op |-> "ocr", status |-> 200, success |-> TRUE,
                       text |-> Strip(JoinLines(lines)),
                       line_count |-> Len(lines), languages |-> langs])

\* ----------------------------------------------------------------- actions
\* Requests are handled one at a time, each end to end: a handler runs when
\* no response is pending, and the response then leaves the server.
Idle == req = NoReq

OptionalOf(S) == {None} \cup {Some(x) : x \in S}

\* POST /calibrate with a frame of `frames` and a distance_m of `dists`
calibrate_on(frames, dists) ==
    /\ Idle
    /\ \E frame \in OptionalOf(frames), distance_m \in OptionalOf(dists) :
       \E o \in {calibrate_handler(frame, distance_m, K_DEFAULT, calib_file)} :
        /\ req' = [op |-> "calibrate", frame |-> frame, distance_m |-> distance_m]
        /\ K_DEFAULT' = o.K
        /\ calib_file' = o.file
        /\ resp' = o.resp
        /\ obs' = NoObs
        /\ cal' = IF o.resp.status = 200
                  THEN Some([D |-> Val(distance_m).v,
                             H |-> MaxHeight(FrameById(Val(frame)).cboxes)])
                  ELSE cal
        /\ UNCHANGED <<clock, last_caption_time, last_wall_alert, blip_model,
                       alert_at, gen_at, cap_at, ocr_readers, built, threads>>

\* GET /get_calib_K
get_calib_K ==
    /\ Idle
    /\ req' = [op |-> "get_calib_K"]
    /\ resp' = get_calib_K_response(K_DEFAULT)
    /\ obs' = NoObs
    /\ UNCHANGED <<clock, K_DEFAULT, calib_file, last_caption_time, last_wall_alert,
                   blip_model, alert_at, gen_at, cap_at, cal, ocr_readers, built, threads>>

\* POST /reset_calib
reset_calib ==
    /\ Idle
    /\ req' = [op |-> "reset_calib"]
    /\ K_DEFAULT' = None
    /\ calib_file' = remove_calib_file(calib_file)
    /\ resp' = reset_calib_response
    /\ obs' = [op |-> "reset_calib", had_K |-> ~IsNone(K_DEFAULT),
               had_file |-> calib_file.state # "absent"]
    /\ cal' = None
    /\ UNCHANGED <<clock, last_caption_time, last_wall_alert, blip_model,
                   alert_at, gen_at, cap_at, ocr_readers, built, threads>>

\* POST /analyze_frame with a frame of `frames`, the call ending by `limit`
\* and meeting one of `faults`.  The first clock reading is the arrival
\* time, the second one is dt later; the outcome of a blip_caption call that
\* is not made is not enumerated.
analyze_frame_faulty_on(frames, limit, faults) ==
    /\ Idle
    /\ \E dt \in 0..MaxDelay, frame \in OptionalOf(frames), fault \in faults,
          c1 \in IF caption_due(clock, last_caption_time)
                 THEN BlipCaptionOutcomes(blip_model) ELSE {None},
          c2 \in IF wall_invokes_captioner(K_DEFAULT)
                 THEN BlipCaptionOutcomes(blip_model) ELSE {None} :
       \E o \in {analyze_frame_with_fault(frame, clock, clock + dt, c1, c2, K_DEFAULT,
                                          last_caption_time, last_wall_alert, fault)} :
        LET ok == o.resp.status = 200
            now1 == clock
            now2 == clock + dt
            read2 == ok \/ o.reached_alert
        IN
        /\ now2 <= limit
        /\ read2 \/ dt = 0
        /\ o.resp.status = 500 \/ fault = "none"
        /\ clock' = IF read2 THEN now2 ELSE clock
        /\ req' = [op |-> "analyze_frame", frame |-> frame]
        /\ last_caption_time' = o.last_caption
        /\ last_wall_alert' = o.last_alert
        /\ resp' = o.resp
        /\ obs' = [op |-> "analyze_frame", now1 |-> now1, now2 |-> clock',
                   scheduled |-> o.scheduled, corroborated |-> o.corroborated,
                   caption_text |-> IF o.scheduled THEN c1 ELSE None,
                   wall_text |-> IF o.corroborated THEN c2 ELSE None,
                   prev_alert |-> alert_at, prev_gen |-> gen_at]
        /\ gen_at' = IF o.scheduled THEN Some(now1) ELSE gen_at
        /\ cap_at' = IF o.corroborated THEN Some(now2)
                     ELSE IF o.scheduled THEN Some(now1) ELSE cap_at
        /\ alert_at' = IF ok /\ ~IsNone(o.resp.wall_alert) THEN Some(now2) ELSE alert_at
        /\ UNCHANGED <<K_DEFAULT, calib_file, blip_model, cal, ocr_readers, built, threads>>

\* POST /analyze_frame with no unexpected error
analyze_frame_on(frames, limit) == analyze_frame_faulty_on(frames, limit, {"none"})

\* POST /question with a frame of `frames` and a question of `questions`
ask_question_on(frames, questions) ==
    /\ Idle
    /\ \E frame \in OptionalOf(frames), question \in OptionalOf(questions),
          a \in BlipQaOutcomes(blip_model) :
       \E o \in {ask_question_handler(frame, question, a, K_DEFAULT)} :
        /\ req' = [op |-> "question", frame |-> frame, question |-> question]
        /\ resp' = o.resp
        /\ obs' = [op |-> "question", fallback |-> o.fallback,
                   delegate |-> IF o.resp.status = 200 THEN Some(a) ELSE None]
        /\ UNCHANGED <<clock, K_DEFAULT, calib_file, last_caption_time, last_wall_alert,
                       blip_model, alert_at, gen_at, cap_at, cal, ocr_readers, built, threads>>

\* POST /ocr with a frame of `frames` and a "langs" field of `inputs`
ocr_on(frames, inputs) ==
    /\ Idle
    /\ \E frame \in OptionalOf(frames), langs_raw \in inputs :
       LET langs == parse_langs(IF IsNone(langs_raw) THEN <<>> ELSE Val(langs_raw))
           miss == ~IsNone(frame) /\ langs \notin DOMAIN ocr_readers
           reads == ~IsNone(frame) /\ FrameById(Val(frame)).decodable
       IN
       \E ok \in IF miss /\ CanBuild(langs) THEN BOOLEAN ELSE {FALSE},
          lines \in IF reads THEN OcrTexts ELSE {<<>>} :
       \E o \in {ocr_handler(frame, langs_raw, ok, lines, ocr_readers, built)} :
        /\ req' = [op |-> "ocr", frame |-> frame, langs |-> langs_raw]
        /\ ocr_readers' = o.readers
        /\ built' = o.built
        /\ resp' = o.resp
        /\ obs' = [op |-> "ocr", attempted |-> o.attempted, reader |-> o.reader,
                   prev_readers |-> ocr_readers]
        /\ UNCHANGED <<clock, K_DEFAULT, calib_file, last_caption_time, last_wall_alert,
                       blip_model, alert_at, gen_at, cap_at, cal, threads>>

\* The response is returned to the client
respond ==
    /\ ~Idle
    /\ req' = NoReq
    /\ resp' = NoResp
    /\ obs' = NoObs
    /\ UNCHANGED <<clock, K_DEFAULT, calib_file, last_caption_time, last_wall_alert,
                   blip_model, alert_at, gen_at, cap_at, cal, ocr_readers, built, threads>>

\* A second passes with no request in progress
tick_until(limit) ==
    /\ Idle
    /\ clock < limit
    /\ clock' = clock + 1
    /\ UNCHANGED <<K_DEFAULT, calib_file, last_caption_time, last_wall_alert,
                   blip_model, req, resp, obs, alert_at, gen_at, cap_at, cal,
                   ocr_readers, built, threads>>

\* ---------------------------------------------------------- specifications
\* Spec: every endpoint with every input, over the first ShortHorizon seconds.
calibrate == calibrate_on(FrameIds, DistanceInputs)
analyze_frame == analyze_frame_on(FrameIds, StartTime + ShortHorizon)
ask_question == ask_question_on(FrameIds, Questions)
recognize == ocr_on({"bad", "empty"}, {None, Some(L_xx)})
tick == tick_until(StartTime + ShortHorizon)

Next ==
    \/ calibrate
    \/ get_calib_K
    \/ reset_calib
    \/ analyze_frame
    \/ ask_question
    \/ recognize
    \/ respond
    \/ tick

Spec == Init /\ [][Next]_vars

\* SpecTimed: the analysis pipeline over Horizon seconds, the calibration
\* changed only by calibrating on one frame at 1 m or 3 m, or by a reset.
TimedFrames == {"bad", "empty", "hall", "person"}
recalibrate == calibrate_on({"pets"}, {Num(1), Num(3)})
analyze_frame_timed == analyze_frame_on(TimedFrames, MaxTime)
tick_timed == tick_until(MaxTime)

NextTimed ==
    \/ recalibrate
    \/ reset_calib
    \/ analyze_frame_timed
    \/ respond
    \/ tick_timed

SpecTimed == Init /\ [][NextTimed]_vars

\* SpecOcr: the reader cache under text-recognition requests, any of the
\* preloads having failed, with the requests that the other endpoints
\* reject.
InitOcr == InitWith({FileJson(Some(200))}, PreloadOutcomes)
OcrFrames == {"bad", "empty"}
ocr == ocr_on(OcrFrames, LangInputs)
calibrate_rejected == calibrate_on({"bad"}, {Num(2)})
analyze_frame_rejected == analyze_frame_on({"bad"}, StartTime)
ask_question_rejected == ask_question_on({"bad"}, {Q_how_many_dog})

NextOcr ==
    \/ ocr
    \/ calibrate_rejected
    \/ analyze_frame_rejected
    \/ ask_question_rejected
    \/ respond

SpecOcr == InitOcr /\ [][NextOcr]_vars

\* SpecFault: the analysis pipeline with a collaborator raising at any of
\* its steps, over ShortHorizon seconds.
FaultFrames == {"bad", "empty", "hall"}
analyze_frame_faulty ==
    analyze_frame_faulty_on(FaultFrames, StartTime + ShortHorizon, FaultPoints \cup {"none"})

NextFault ==
    \/ recalibrate
    \/ reset_calib
    \/ analyze_frame_faulty
    \/ respond
    \/ tick

SpecFault == Init /\ [][NextFault]_vars


\* SpecUnits: the two pure helpers called directly, on every width up to
\* MaxSideWidth with every centroid inside the frame, and on every distance
\* of the grid of 1/64 m up to MaxSixtyFourths (values that binary floating
\* point holds exactly, as it does their multiples by 100) with the
\* distances 12.3, 1.4 and 0.42.
MaxSideWidth == 100
MaxSixtyFourths == 832
DistanceValues ==
    {None} \cup {Some(Rat(n, 64)) : n \in 0..MaxSixtyFourths}
           \cup {Some(Rat(123, 10)), Some(Rat(14, 10)), Some(Rat(42, 100))}

choose_side_call ==
    /\ Idle
    /\ \E w \in 1..MaxSideWidth, cx \in 0..MaxSideWidth :
        /\ cx <= w
        /\ req' = [op |-> "choose_side", cx |-> cx, w |-> w]
        /\ resp' = [op |-> "choose_side", status |-> 200, side |-> choose_side(cx, w)]
    /\ obs' = NoObs
    /\ UNCHANGED <<clock, K_DEFAULT, calib_file, last_caption_time, last_wall_alert,
                   blip_model, alert_at, gen_at, cap_at, cal, ocr_readers, built, threads>>

format_distance_call ==
    /\ Idle
    /\ \E d \in DistanceValues :
        /\ req' = [op |-> "format_distance", d |-> d]
        /\ resp' = [op |-> "format_distance", status |-> 200, text |-> format_distance(d)]
    /\ obs' = NoObs
    /\ UNCHANGED <<clock, K_DEFAULT, calib_file, last_caption_time, last_wall_alert,
                   blip_model, alert_at, gen_at, cap_at, cal, ocr_readers, built, threads>>

InitUnits == InitWith({FileAbsent}, {PreloadAll})

NextUnits ==
    \/ choose_side_call
    \/ format_distance_call
    \/ respond

SpecUnits == InitUnits /\ [][NextUnits]_vars


\* ------------------------------------------------------ concurrent requests
\* The handlers below run on the workers, one statement that touches the
\* shared state per step, so that the steps of two requests interleave.
\* No lock is taken anywhere in server.py.
seq_vars == <<req, resp, obs, alert_at, gen_at, cap_at, cal>>
Moves(w, t) == threads' = [threads EXCEPT ![w] = t]

\* SpecRace: two workers in analyze_frame over Horizon seconds, K set.
RaceFrames == {"hall"}

\* analyze_frame(), lines 455-489: the frame is decoded, the tracker runs and
\* the clock is read
analyze_frame_now ==
    \E w \in Workers, frame \in RaceFrames :
        /\ threads[w] = Resting
        /\ Moves(w, [op |-> "analyze_frame", pc |-> "check", frame |-> frame,
                     now |-> clock, seen |-> 0, due |-> FALSE, invoked_at |-> 0])
        /\ UNCHANGED <<clock, K_DEFAULT, calib_file, last_caption_time, last_wall_alert,
                       blip_model, ocr_readers, built, seq_vars>>

\* line 491: last_caption_time is read and compared
analyze_frame_check ==
    \E w \in Workers :
        /\ threads[w].op = "analyze_frame" /\ threads[w].pc = "check"
        /\ LET due == caption_due(threads[w].now, last_caption_time)
           IN  Moves(w, [threads[w] EXCEPT !.seen = last_caption_time, !.due = due,
                                           !.pc = IF due THEN "caption" ELSE "rest"])
        /\ UNCHANGED <<clock, K_DEFAULT, calib_file, last_caption_time, last_wall_alert,
                       blip_model, ocr_readers, built, seq_vars>>

\* line 492: blip_caption(frame), whose text goes into the response only
analyze_frame_caption ==
    \E w \in Workers :
        /\ threads[w].op = "analyze_frame" /\ threads[w].pc = "caption"
        /\ Moves(w, [threads[w] EXCEPT !.invoked_at = clock, !.pc = "stamp"])
        /\ UNCHANGED <<clock, K_DEFAULT, calib_file, last_caption_time, last_wall_alert,
                       blip_model, ocr_readers, built, seq_vars>>

\* line 493: last_caption_time = now
analyze_frame_stamp ==
    \E w \in Workers :
        /\ threads[w].op = "analyze_frame" /\ threads[w].pc = "stamp"
        /\ last_caption_time' = threads[w].now
        /\ Moves(w, [threads[w] EXCEPT !.pc = "rest"])
        /\ UNCHANGED <<clock, K_DEFAULT, calib_file, last_wall_alert,
                       blip_model, ocr_readers, built, seq_vars>>

\* lines 495-548: the wall heuristic, the alert and the response
analyze_frame_rest ==
    \E w \in Workers :
        /\ threads[w].op = "analyze_frame" /\ threads[w].pc = "rest"
        /\ \E c2 \in IF wall_invokes_captioner(K_DEFAULT)
                     THEN BlipCaptionOutcomes(blip_model) ELSE {None} :
            LET wall_info == detect_wall_and_distance(FrameById(threads[w].frame),
                                                      K_DEFAULT, c2)
            IN  last_wall_alert' = wall_alert_step(wall_info, clock, last_wall_alert).last
        /\ Moves(w, Resting)
        /\ UNCHANGED <<clock, K_DEFAULT, calib_file, last_caption_time,
                       blip_model, ocr_readers, built, seq_vars>>

\* A second passes, whatever the workers are doing
tick_race ==
    /\ clock < MaxTime
    /\ clock' = clock + 1
    /\ UNCHANGED <<K_DEFAULT, calib_file, last_caption_time, last_wall_alert,
                   blip_model, ocr_readers, built, threads, seq_vars>>

InitRace == InitWith({FileJson(Some(200))}, {PreloadAll})

NextRace ==
    \/ analyze_frame_now
    \/ analyze_frame_check
    \/ analyze_frame_caption
    \/ analyze_frame_stamp
    \/ analyze_frame_rest
    \/ tick_race

SpecRace == InitRace /\ [][NextRace]_vars


\* SpecReaders: two workers in ocr(), from every outcome of the preload.
\* ocr(), lines 678-687: the frame field is present, langs is parsed and
\* get_ocr_reader(langs) is entered
ocr_langs ==
    \E w \in Workers, langs_raw \in LangInputs :
        /\ threads[w] = Resting
        /\ Moves(w, [op |-> "ocr", pc |-> "lookup",
                     key |-> parse_langs(IF IsNone(langs_raw) THEN <<>>
                                         ELSE Val(langs_raw)),
                     reader |-> None])
        /\ UNCHANGED <<clock, K_DEFAULT, calib_file, last_caption_time, last_wall_alert,
                       blip_model, ocr_readers, built, seq_vars>>

\* get_ocr_reader(), lines 112-114: a cached reader is returned
get_ocr_reader_lookup ==
    \E w \in Workers :
        /\ threads[w].op = "ocr" /\ threads[w].pc = "lookup"
        /\ Moves(w, IF threads[w].key \in DOMAIN ocr_readers
                    THEN [threads[w] EXCEPT !.reader = Some(ocr_readers[threads[w].key]),
                                            !.pc = "read"]
                    ELSE [threads[w] EXCEPT !.pc = "construct"])
        /\ UNCHANGED <<clock, K_DEFAULT, calib_file, last_caption_time, last_wall_alert,
                       blip_model, ocr_readers, built, seq_vars>>

\* line 116: easyocr.Reader(langs) returns a new reader, or raises and None
\* is returned (lines 120-122)
get_ocr_reader_construct ==
    \E w \in Workers :
        /\ threads[w].op = "ocr" /\ threads[w].pc = "construct"
        /\ \E ok \in IF CanBuild(threads[w].key) THEN BOOLEAN ELSE {FALSE} :
            LET key == threads[w].key
                n == BuiltCount(built, key) + 1
            IN  IF ok
                THEN /\ built' = WithEntry(built, key, n)
                     /\ Moves(w, [threads[w] EXCEPT !.reader = Some(Reader(key, n)),
                                                    !.pc = "insert"])
                ELSE /\ built' = built
                     /\ Moves(w, [threads[w] EXCEPT !.pc = "read"])
        /\ UNCHANGED <<clock, K_DEFAULT, calib_file, last_caption_time, last_wall_alert,
                       blip_model, ocr_readers, seq_vars>>

\* lines 117-119: ocr_readers[lang_key] = reader; return reader
get_ocr_reader_insert ==
    \E w \in Workers :
        /\ threads[w].op = "ocr" /\ threads[w].pc = "insert"
        /\ ocr_readers' = WithEntry(ocr_readers, threads[w].key, Val(threads[w].reader))
        /\ Moves(w, [threads[w] EXCEPT !.pc = "read"])
        /\ UNCHANGED <<clock, K_DEFAULT, calib_file, last_caption_time, last_wall_alert,
                       blip_model, built, seq_vars>>

\* ocr(), lines 688-718: with the reader it was given the request reads the
\* text, or answers 503 without one, and ends
ocr_read ==
    \E w \in Workers :
        /\ threads[w].op = "ocr" /\ threads[w].pc = "read"
        /\ Moves(w, Resting)
        /\ UNCHANGED <<clock, K_DEFAULT, calib_file, last_caption_time, last_wall_alert,
                       blip_model, ocr_readers, built, seq_vars>>

NextReaders ==
    \/ ocr_langs
    \/ get_ocr_reader_lookup
    \/ get_ocr_reader_construct
    \/ get_ocr_reader_insert
    \/ ocr_read

SpecReaders == InitOcr /\ [][NextReaders]_vars


\* SpecStore: two workers in calibrate() and reset_calib().
StoreFrames == {"pets"}
StoreDistances == {1, 3}

\* calibrate(), lines 611-638: a valid request finds the tallest box and
\* computes K = dist_m * best_h
calibrate_compute ==
    \E w \in Workers, frame \in StoreFrames, dist_m \in StoreDistances :
        /\ threads[w] = Resting
        /\ LET best_h == best_height(FrameById(frame).cboxes, 0)
           IN  /\ best_h > 0
               /\ Moves(w, [op |-> "calibrate", pc |-> "save",
                            K |-> calib_K(dist_m, best_h)])
        /\ UNCHANGED <<clock, K_DEFAULT, calib_file, last_caption_time, last_wall_alert,
                       blip_model, ocr_readers, built, seq_vars>>

\* line 639: save_calib_K(K)
calibrate_save ==
    \E w \in Workers :
        /\ threads[w].op = "calibrate" /\ threads[w].pc = "save"
        /\ calib_file' = save_calib_K(threads[w].K)
        /\ Moves(w, [threads[w] EXCEPT !.pc = "assign"])
        /\ UNCHANGED <<clock, K_DEFAULT, last_caption_time, last_wall_alert,
                       blip_model, ocr_readers, built, seq_vars>>

\* lines 640-647: K_DEFAULT = K, and the response
calibrate_assign ==
    \E w \in Workers :
        /\ threads[w].op = "calibrate" /\ threads[w].pc = "assign"
        /\ K_DEFAULT' = Some(threads[w].K)
        /\ Moves(w, Resting)
        /\ UNCHANGED <<clock, calib_file, last_caption_time, last_wall_alert,
                       blip_model, ocr_readers, built, seq_vars>>

\* reset_calib(), line 666: K_DEFAULT = None
reset_calib_clear ==
    \E w \in Workers :
        /\ threads[w] = Resting
        /\ K_DEFAULT' = None
        /\ Moves(w, [op |-> "reset_calib", pc |-> "remove"])
        /\ UNCHANGED <<clock, calib_file, last_caption_time, last_wall_alert,
                       blip_model, ocr_readers, built, seq_vars>>

\* lines 667-671: os.remove(K_CALIB_FILE), and the response
reset_calib_remove ==
    \E w \in Workers :
        /\ threads[w].op = "reset_calib" /\ threads[w].pc = "remove"
        /\ calib_file' = remove_calib_file(calib_file)
        /\ Moves(w, Resting)
        /\ UNCHANGED <<clock, K_DEFAULT, last_caption_time, last_wall_alert,
                       blip_model, ocr_readers, built, seq_vars>>

NextStore ==
    \/ calibrate_compute
    \/ calibrate_save
    \/ calibrate_assign
    \/ reset_calib_clear
    \/ reset_calib_remove

SpecStore == Init /\ [][NextStore]_vars


\* ------------------------------------------------------------------ claims
\* A request of kind op has just been answered successfully
Answered(op) == req.op = op /\ resp.status = 200
\* This step handles a request of kind op and answers it successfully
Handles(op) == Idle /\ req'.op = op /\ resp'.status = 200

\* C1 (SpecTimed).  Wall-alert cooldown: an analysis in which the wall
\* heuristic reports detected=true returns a non-null alert exactly when no
\* alert was emitted before or the last emitted alert is at least 3 s old; so
\* two emitted alerts are never less than 3 s apart, and a detection 3 s or
\* more after the last emitted alert yields a new alert.
C1_WallAlertCooldown ==
    (Answered("analyze_frame") /\ resp.wall_info.detected)
    => (~IsNone(resp.wall_alert)
        <=> (IsNone(obs.prev_alert) \/ obs.now2 - Val(obs.prev_alert) >= 3))

\* C1 witness: a detection 3 s or more after an emitted alert is answered
\* with a new alert.
C1_Witness ==
    /\ Answered("analyze_frame")
    /\ resp.wall_info.detected
    /\ ~IsNone(obs.prev_alert)
    /\ obs.now2 - Val(obs.prev_alert) >= 3
    /\ ~IsNone(resp.wall_alert)

\* The precondition of C2: the cooldown has elapsed, a wall is detected and
\* its distance estimate is 3.0 m or more.
FarWallDetected ==
    /\ Handles("analyze_frame")
    /\ resp'.wall_info.detected
    /\ (IsNone(alert_at) \/ obs'.now2 - Val(alert_at) >= 3)
    /\ ~IsNone(resp'.wall_info.distance)
    /\ RatGe(Val(resp'.wall_info.distance), Rat(3, 1))

\* C2 as stated (SpecTimed).  With the cooldown elapsed and a wall detected
\* at 3.0 m or more, no alert is produced and the cooldown timestamp is not
\* reset.
C2_FarWallSilent ==
    [][FarWallDetected
       => (IsNone(resp'.wall_alert) /\ last_wall_alert' = last_wall_alert)]_vars

\* C2 as amended (SpecTimed).  With the cooldown elapsed and a wall detected
\* at 3.0 m or more, a non-urgent alert "Wall detected ahead on your
\* <position>." is produced and the cooldown timestamp becomes the time of
\* the call.
C2_FarWallAlert ==
    [][FarWallDetected
       => /\ resp'.wall_alert =
               Some([message |-> <<"Wall detected ahead on your ",
                                   resp'.wall_info.position, ".">>,
                     distance |-> resp'.wall_info.distance,
                     distance_str |-> resp'.wall_info.distance_str,
                     position |-> resp'.wall_info.position,
                     urgent |-> FALSE])
          /\ last_wall_alert' = obs'.now2]_vars

\* C2 witness: an analysis that detected a wall at 3.0 m or more, the
\* cooldown elapsed, and returned the non-urgent alert.
C2_Witness ==
    /\ Answered("analyze_frame")
    /\ resp.wall_info.detected
    /\ ~IsNone(resp.wall_info.distance)
    /\ RatGe(Val(resp.wall_info.distance), Rat(3, 1))
    /\ (IsNone(obs.prev_alert) \/ obs.now2 - Val(obs.prev_alert) >= 3)
    /\ ~IsNone(resp.wall_alert)
    /\ ~Val(resp.wall_alert).urgent
    /\ last_wall_alert = obs.now2

\* C3 (SpecTimed).  Caption throttle: an analysis 5 s or less after the last
\* analysis that invoked the scheduled caption does not invoke it, returns
\* the navigation sentence alone as caption and leaves the timestamp; an
\* analysis more than 5 s after it invokes the captioner and sets the
\* timestamp to its own time.
C3_CaptionThrottle ==
    (Answered("analyze_frame") /\ ~IsNone(obs.prev_gen))
    => /\ (obs.now1 - Val(obs.prev_gen) <= 5)
          => (/\ ~obs.scheduled
              /\ resp.caption = resp.navigation_caption
              /\ last_caption_time = Val(obs.prev_gen))
       /\ (obs.now1 - Val(obs.prev_gen) > 5)
          => (obs.scheduled /\ last_caption_time = obs.now1)

\* C3 witness: an analysis more than 5 s after the last scheduled caption
\* that generated a caption again.
C3_Witness ==
    /\ Answered("analyze_frame")
    /\ ~IsNone(obs.prev_gen)
    /\ obs.now1 - Val(obs.prev_gen) > 5
    /\ obs.scheduled
    /\ resp.caption # resp.navigation_caption

\* C4 (SpecTimed).  Any two invocations of the captioner are at least 5 s
\* apart: one analysis does not invoke it twice, and neither the scheduled
\* call nor the corroboration call comes less than 5 s after the previous
\* invocation.
C4_CaptionerSpacing ==
    [][Handles("analyze_frame")
       => /\ ~(obs'.scheduled /\ obs'.corroborated)
          /\ (obs'.scheduled /\ ~IsNone(cap_at)) => obs'.now1 - Val(cap_at) >= 5
          /\ (obs'.corroborated /\ ~IsNone(cap_at)) => obs'.now2 - Val(cap_at) >= 5]_vars

\* C5 (Spec).  The calibration constant is absent or strictly positive, in
\* memory and in the persisted store.
C5_KPositive ==
    /\ IsNone(K_DEFAULT) \/ Val(K_DEFAULT) > 0
    /\ IsNone(calib_file.K) \/ Val(calib_file.K) > 0

\* C6 (Spec).  A successful calibrate(frame, D) takes the greatest height H
\* among the frame's detections, sets K = D * H in the store and in memory
\* and returns K, H and D; while that calibration is in force get_calib_K
\* returns that K with is_calibrated true.
C6_Calibrate ==
    /\ Answered("calibrate")
       => LET boxes == FrameById(Val(req.frame)).cboxes
              D == Val(req.distance_m).v
              H == resp.bbox_height
          IN  /\ \E i \in 1..Len(boxes) : Height(boxes[i]) = H
              /\ \A i \in 1..Len(boxes) : Height(boxes[i]) <= H
              /\ resp.success /\ resp.K = D * H /\ resp.distance_m = D
              /\ calib_file = FileJson(Some(D * H))
              /\ K_DEFAULT = Some(D * H)
    /\ (Answered("get_calib_K") /\ ~IsNone(cal))
       => /\ resp.K = Some(Val(cal).D * Val(cal).H)
          /\ resp.is_calibrated

\* C6 witness: a successful calibration on a frame whose tallest box is not
\* the first one.
C6_Witness ==
    /\ Answered("calibrate")
    /\ Height(FrameById(Val(req.frame)).cboxes[1]) < resp.bbox_height

\* C7 (Spec).  After a successful calibrate(frame, D) with D > 0 and best
\* height H, and until the next calibrate or reset, every detection of
\* height H in an analysed frame has distance D * H / (H + 1e-6), that is D
\* up to the epsilon term.
C7_RoundTrip ==
    (Answered("analyze_frame") /\ ~IsNone(cal) /\ Val(cal).D > 0)
    => \A i \in 1..Len(resp.detections) :
          resp.detections[i].bbox_height = Val(cal).H
          => resp.detections[i].distance =
                Some(Rat(Val(cal).D * Val(cal).H * EpsDen, Val(cal).H * EpsDen + 1))

\* C7 witness: calibrated at 2 m on a box 100 px high (K = 200), an analysed
\* frame holds a detection 100 px high.
C7_Witness ==
    /\ Answered("analyze_frame")
    /\ cal = Some([D |-> 2, H |-> 100])
    /\ K_DEFAULT = Some(200)
    /\ \E i \in 1..Len(resp.detections) : resp.detections[i].bbox_height = 100

\* C8 (Spec).  reset_calib succeeds from any state, returns K = null and
\* leaves K unset in memory and the store absent; a second reset changes
\* nothing (its results are the state it starts from).
C8_ResetIdempotent ==
    req.op = "reset_calib"
    => /\ resp.status = 200 /\ resp.success /\ resp.K = None
       /\ K_DEFAULT = None
       /\ calib_file = FileAbsent
       /\ remove_calib_file(calib_file) = calib_file
       /\ reset_calib_response = resp

\* C8 witness: a reset of a calibrated process whose store existed.
C8_Witness ==
    /\ req.op = "reset_calib"
    /\ obs.had_K
    /\ obs.had_file

\* The precondition of C9: a well-formed calibrate request whose frame has no
\* detection, or none of positive height.
CalibrateFindsNothing ==
    /\ Idle
    /\ req'.op = "calibrate"
    /\ ~IsNone(req'.frame) /\ ~IsNone(req'.distance_m)
    /\ Val(req'.distance_m).numeric
    /\ FrameById(Val(req'.frame)).decodable
    /\ \A i \in 1..Len(FrameById(Val(req'.frame)).cboxes) :
          Height(FrameById(Val(req'.frame)).cboxes[i]) <= 0

\* C9 (Spec).  A calibrate call on a frame with no detection, or whose
\* greatest height is <= 0, returns an error and leaves the in-memory K and
\* the persisted store as they were.
C9_FailedCalibrateKeepsState ==
    [][CalibrateFindsNothing
       => /\ resp'.status = 400
          /\ resp'.error = "No object detected for calibration"
          /\ K_DEFAULT' = K_DEFAULT
          /\ calib_file' = calib_file]_vars

\* C9 witness: a calibrated process refused a calibration on a frame whose
\* only box has height 0.
C9_Witness ==
    /\ req.op = "calibrate"
    /\ req.frame = Some("small")
    /\ resp.status = 400
    /\ resp.error = "No object detected for calibration"
    /\ ~IsNone(K_DEFAULT)
    /\ calib_file.state = "json"

\* C10 (Spec).  The resolver counts the detections of the class a question
\* names in the plural: "how many dogs" against [dog, dog, cat] is answered
\* "I can see 2 dog(s).".
C10_PluralCount ==
    (/\ Answered("question")
     /\ obs.fallback
     /\ req.question = Some(Q_how_many_dogs)
     /\ req.frame = Some("pets"))
    => resp.answer = <<"I can see ", "2", " ", "d", "o", "g", "(s).">>

\* A well-formed question request: a decodable frame and a question
ValidQuestion ==
    /\ req.op = "question"
    /\ ~IsNone(req.frame) /\ ~IsNone(req.question)
    /\ FrameById(Val(req.frame)).decodable

\* What the deterministic resolver returns for the request's question and
\* the detections of its frame
ResolverAnswer ==
    qa_from_detections(Val(req.question),
                       simple_detection_facts(FrameById(Val(req.frame)), K_DEFAULT))

\* C11 (Spec).  A well-formed question asked while the generative model is
\* not loaded is answered successfully: the delegate is called, returns its
\* "not loaded" sentinel, and the response is {question, answer} with the
\* answer the deterministic resolver gives for the frame's detections.
C11_FallbackWhenNotLoaded ==
    (ValidQuestion /\ blip_model = "missing")
    => /\ resp.status = 200
       /\ obs.delegate = Some(S_unavailable)
       /\ obs.fallback
       /\ resp.question = Val(req.question)
       /\ resp.answer = ResolverAnswer

\* C11 witness: with the model not loaded, "How many dog" on the frame of
\* two dogs and a cat is answered by the resolver.
C11_Witness ==
    /\ ValidQuestion /\ blip_model = "missing"
    /\ req.frame = Some("pets") /\ req.question = Some(Q_how_many_dog)
    /\ resp.answer = <<"I can see ", "2", " ", "d", "o", "g", "(s).">>

\* The delegate raised while generating: blip_qa returned its error text
DelegateRaised ==
    /\ ValidQuestion
    /\ ~IsNone(obs.delegate)
    /\ Len(Val(obs.delegate)) >= Len(S_model_error)
    /\ SubSeq(Val(obs.delegate), 1, Len(S_model_error)) = S_model_error

\* C12 (Spec).  When the loaded model raises while answering, the response
\* carries the deterministic resolver's answer, not the delegate's error
\* text.
C12_FallbackWhenDelegateRaises ==
    DelegateRaised => (resp.status = 200 /\ resp.answer = ResolverAnswer)

\* The language tuple of the text-recognition request just handled
OcrKey == parse_langs(IF IsNone(req.langs) THEN <<>> ELSE Val(req.langs))
\* A text-recognition request has just been handled and it reached the cache
OcrLookup == req.op = "ocr" /\ ~IsNone(req.frame)

\* C13 (SpecOcr).  For every language tuple the recognizer is constructed
\* successfully at most once; a request for a tuple that is cached (by the
\* preload or by an earlier request) gets the cached instance, constructs
\* nothing and leaves the cache as it is; and no step removes or replaces an
\* entry of the cache.
C13_ReaderCache ==
    /\ [](\A k \in DOMAIN built : built[k] <= 1)
    /\ []((OcrLookup /\ OcrKey \in DOMAIN obs.prev_readers)
          => /\ obs.reader = Some(obs.prev_readers[OcrKey])
             /\ ~obs.attempted
             /\ ocr_readers = obs.prev_readers)
    /\ [][\A k \in DOMAIN ocr_readers :
             k \in DOMAIN ocr_readers' /\ ocr_readers'[k] = ocr_readers[k]]_vars

\* C13 witness: ("mr", "en") is not preloaded; a request finds it cached by
\* an earlier request and gets that instance.
C13_Witness ==
    /\ OcrLookup
    /\ OcrKey = <<L_mr, L_en>>
    /\ OcrKey \in DOMAIN obs.prev_readers
    /\ obs.reader = Some(Reader(<<L_mr, L_en>>, 1))
    /\ built[OcrKey] = 1

\* C14 (SpecOcr).  When the construction of a recognizer for the requested
\* tuple fails, the request is answered 503 "OCR unavailable" for that
\* tuple, the tuple is not in the cache and the cache is what it was; this
\* holds every time the construction fails.
C14_ReaderUnavailable ==
    (OcrLookup /\ obs.attempted /\ IsNone(obs.reader))
    => /\ resp.status = 503
       /\ resp.error = "OCR unavailable for languages: "
       /\ resp.languages = OcrKey
       /\ OcrKey \notin DOMAIN ocr_readers
       /\ ocr_readers = obs.prev_readers

\* C14 witness: the construction for the supported tuple ("en", "mr", "hi")
\* failed and the request was answered 503.
C14_Witness ==
    /\ OcrLookup /\ obs.attempted /\ IsNone(obs.reader)
    /\ OcrKey = <<L_en, L_mr, L_hi>>
    /\ resp.status = 503

\* C15 (SpecOcr).  A request that analyze_frame, question, calibrate or ocr
\* rejects with status 400 (frame missing, frame undecodable, field missing)
\* changes neither K, nor the store, nor the two timestamps, nor the reader
\* cache.
C15_RejectedRequestKeepsState ==
    [][(Idle /\ req'.op \in {"analyze_frame", "question", "calibrate", "ocr"}
             /\ resp'.status = 400)
       => UNCHANGED <<K_DEFAULT, calib_file, last_caption_time, last_wall_alert,
                      ocr_readers>>]_vars

\* C16 (SpecFault).  An analyze_frame request that meets an unexpected error
\* at any step is answered with a generic failure and leaves both the
\* caption-throttle timestamp and the wall-alert cooldown timestamp at their
\* values before the request.
C16_FailedAnalysisKeepsTimestamps ==
    [][(Idle /\ req'.op = "analyze_frame" /\ resp'.status = 500)
       => UNCHANGED <<last_caption_time, last_wall_alert>>]_vars

\* C17 (Spec).  Fail-open when uncalibrated: an analysis made while K is
\* unset gets wall_info = {detected false, distance null, "?", position
\* "unknown"} without a captioner call from the wall heuristic, carries no
\* wall alert, leaves the cooldown timestamp alone, and still returns the
\* detections, the navigation sentence and a caption.
C17_FailOpenUncalibrated ==
    [][(Handles("analyze_frame") /\ IsNone(K_DEFAULT))
       => /\ resp'.wall_info = [detected |-> FALSE, distance |-> None,
                                distance_str |-> <<"?">>, position |-> "unknown"]
          /\ ~obs'.corroborated
          /\ IsNone(resp'.wall_alert)
          /\ last_wall_alert' = last_wall_alert
          /\ Len(resp'.detections) = Len(FrameById(Val(req'.frame)).boxes)
          /\ resp'.navigation_caption =
                navigation_caption_from_detections(resp'.detections)
          /\ resp'.caption # <<>>]_vars

\* C17 witness: uncalibrated, a frame with three boxes and twelve vertical
\* lines is analysed: three detections, no wall, no alert.
C17_Witness ==
    /\ Answered("analyze_frame")
    /\ IsNone(K_DEFAULT)
    /\ req.frame = Some("pets")
    /\ Len(resp.detections) = 3
    /\ ~resp.wall_info.detected
    /\ IsNone(resp.wall_alert)

\* C18 (SpecUnits).  format_distance gives every distance exactly one form:
\* None -> "?"; d >= 10 -> "<m> m" with m the whole number nearest to d;
\* 1 <= d < 10 -> "<a>.<b> m" with a.b the one-decimal number nearest to d;
\* 0 <= d < 1 -> "<c> cm" with c = d * 100 truncated.  12.3 -> "12 m",
\* 1.4 -> "1.4 m", 0.42 -> "42 cm", 10 -> "10 m", 1 -> "1.0 m".
C18_FormatDistance ==
    req.op = "format_distance"
    => LET d == req.d
           text == resp.text
           v == Val(d)
       IN  /\ IsNone(d) => text = <<"?">>
           /\ (~IsNone(d) /\ RatGe(v, Rat(10, 1)))
              => \E m \in 10..(MaxSixtyFourths \div 64 + 1) :
                    /\ text = IntDigits(m) \o <<" m">>
                    /\ 2 * Abs(v.num - m * v.den) <= v.den
           /\ (~IsNone(d) /\ RatGe(v, Rat(1, 1)) /\ RatLt(v, Rat(10, 1)))
              => \E a \in 1..10, b \in 0..9 :
                    /\ text = IntDigits(a) \o <<".">> \o IntDigits(b) \o <<" m">>
                    /\ 2 * Abs(10 * v.num - (10 * a + b) * v.den) <= v.den
           /\ (~IsNone(d) /\ RatGe(v, Rat(0, 1)) /\ RatLt(v, Rat(1, 1)))
              => \E c \in 0..99 :
                    /\ text = IntDigits(c) \o <<" cm">>
                    /\ c * v.den <= 100 * v.num
                    /\ 100 * v.num < (c + 1) * v.den
           /\ d = Some(Rat(123, 10)) => text = <<"1", "2", " m">>
           /\ d = Some(Rat(14, 10)) => text = <<"1", ".", "4", " m">>
           /\ d = Some(Rat(42, 100)) => text = <<"4", "2", " cm">>
           /\ d = Some(Rat(640, 64)) => text = <<"1", "0", " m">>
           /\ d = Some(Rat(64, 64)) => text = <<"1", ".", "0", " m">>

\* C18 witness: 63/64 m = 0.984375 m is printed "98 cm".
C18_Witness ==
    /\ req.op = "format_distance"
    /\ req.d = Some(Rat(63, 64))
    /\ resp.text = <<"9", "8", " cm">>

\* C19 (SpecUnits).  choose_side is total and exclusive: left iff
\* cx < 0.33 w, right iff cx > 0.66 w, center otherwise, a centroid on
\* either boundary being center; for w = 100: 20 -> left, 33 -> center,
\* 50 -> center, 66 -> center, 90 -> right.
C19_ChooseSide ==
    req.op = "choose_side"
    => LET cx == req.cx
           w == req.w
           side == resp.side
       IN  /\ side \in {"left", "center", "right"}
           /\ side = "left" <=> 100 * cx < 33 * w
           /\ side = "right" <=> 100 * cx > 66 * w
           /\ side = "center" <=> (100 * cx >= 33 * w /\ 100 * cx <= 66 * w)
           /\ (w = 100 /\ cx = 20) => side = "left"
           /\ (w = 100 /\ cx \in {33, 50, 66}) => side = "center"
           /\ (w = 100 /\ cx = 90) => side = "right"

\* C19 witness: the centroid 33 of a frame 100 wide is center.
C19_Witness ==
    /\ req.op = "choose_side"
    /\ req.w = 100 /\ req.cx = 33
    /\ resp.side = "center"

\* An analysis has just emitted a tiered alert: the wall's distance is known
\* and below 3 m
TieredAlertEmitted ==
    /\ Answered("analyze_frame")
    /\ ~IsNone(resp.wall_alert)
    /\ Truthy(resp.wall_info.distance)
    /\ RatLt(Val(resp.wall_info.distance), Rat(3, 1))

\* The message of the emitted alert is the one of the band of its distance:
\* below 1 m "... Stop immediately!", from 1 m to below 2 m "... Slow
\* down.", from 2 m to below 3 m "Wall ahead ...".
MessageFollowsBand ==
    LET a == Val(resp.wall_alert)
        d == Val(a.distance)
        last == a.message[Len(a.message)]
    IN  /\ a.distance = resp.wall_info.distance
        /\ RatLt(d, Rat(1, 1)) <=> last = ". Stop immediately!"
        /\ (RatGe(d, Rat(1, 1)) /\ RatLt(d, Rat(2, 1))) <=> last = ". Slow down."
        /\ RatGe(d, Rat(2, 1)) <=> a.message[1] = "Wall ahead "

\* C20 as stated (SpecTimed).  Every tiered alert has the message of its
\* distance band and is urgent exactly when its distance is below 1.0 m.
C20_UrgentBelow1 ==
    TieredAlertEmitted
    => /\ MessageFollowsBand
       /\ Val(resp.wall_alert).urgent
            <=> RatLt(Val(Val(resp.wall_alert).distance), Rat(1, 1))

\* C20 as amended (SpecTimed).  Every tiered alert has the message of its
\* distance band and is urgent exactly when its distance is below 1.5 m.
C20_UrgentBelow1_5 ==
    TieredAlertEmitted
    => /\ MessageFollowsBand
       /\ Val(resp.wall_alert).urgent
            <=> RatLt(Val(Val(resp.wall_alert).distance), Rat(3, 2))

\* C20 witness: a "slow down" alert for a wall between 1.0 m and 1.5 m,
\* which is urgent.
C20_Witness ==
    /\ TieredAlertEmitted
    /\ RatGe(Val(resp.wall_info.distance), Rat(1, 1))
    /\ RatLt(Val(resp.wall_info.distance), Rat(3, 2))
    /\ Val(resp.wall_alert).message[Len(Val(resp.wall_alert).message)] = ". Slow down."
    /\ Val(resp.wall_alert).urgent

WallAnalysed == Answered("analyze_frame") /\ ~IsNone(K_DEFAULT)
\* What the geometric step alone finds in the frame just analysed
Geometric == wall_geometry(FrameById(Val(req.frame)), K_DEFAULT)
\* The caption text names a wall or barrier, and says close or near
TextSaysCloseWall ==
    /\ ~IsNone(obs.wall_text)
    /\ LET text == Lower(Val(obs.wall_text))
       IN  /\ Contains(text, S_wall) \/ Contains(text, S_barrier)
           /\ Contains(text, S_close) \/ Contains(text, S_near)

\* C22 (SpecTimed).  Fusion is monotone: a wall the geometric step detected
\* stays detected; the final distance is the geometric one unless the
\* caption names a wall or barrier as close or near and the geometric
\* distance is null or above 2.0 m, in which case it is 1.5 m; so the final
\* distance never exceeds a non-null geometric one.
C22_FusionMonotone ==
    WallAnalysed
    => LET geo == Geometric
           final == resp.wall_info
       IN  /\ geo.detected => final.detected
           /\ final.distance # geo.distance
              => /\ final.distance = Some(Rat(3, 2))
                 /\ TextSaysCloseWall
                 /\ IsNone(geo.distance) \/ RatGt(Val(geo.distance), Rat(2, 1))

\* C22 witness: the geometric estimate is 1.25 m, the caption says "A Wall
\* is close", and the distance stays 1.25 m.
C22_Witness ==
    /\ WallAnalysed
    /\ TextSaysCloseWall
    /\ ~IsNone(Geometric.distance)
    /\ RatLt(Val(Geometric.distance), Rat(3, 2))
    /\ resp.wall_info.distance = Geometric.distance
    /\ resp.wall_info.detected

\* The wall heuristic ran with K set and no caption text to fuse, so the
\* response carries the geometric result as it is
GeometryAnswered == WallAnalysed /\ IsNone(obs.wall_text)
\* The segments found in the frame just analysed, and the near-vertical ones
SegmentsFound ==
    LET lines == FrameById(Val(req.frame)).lines
    IN  IF IsNone(lines) THEN <<>> ELSE Val(lines)
NearVertical(l) == Abs(l.x2 - l.x1) < 20
VerticalFound == Len(SelectSeq(SegmentsFound, NearVertical))
\* Height of the central region, rows h//3 up to 2h//3
RegionHeight ==
    LET h == FrameById(Val(req.frame)).h
    IN  ((2 * h) \div 3) - (h \div 3)

\* C23 as stated (Spec).  With K set, a distance hypothesis is formed exactly
\* when at least 10 segments are found, and a wall is detected exactly when
\* in addition more than 5 segments are near-vertical, for every frame size.
C23_TenSegments ==
    GeometryAnswered
    => /\ ~IsNone(resp.wall_info.distance) <=> Len(SegmentsFound) >= 10
       /\ resp.wall_info.detected
          <=> (Len(SegmentsFound) >= 10 /\ VerticalFound > 5)

\* C23 as amended (Spec).  With K set, a distance hypothesis is formed
\* exactly when more than 10 segments are found and the central region is
\* more than 50 px high, and a wall is detected exactly when in addition
\* more than 5 segments are near-vertical.
C23_MoreThanTenSegments ==
    GeometryAnswered
    => /\ ~IsNone(resp.wall_info.distance)
          <=> (Len(SegmentsFound) > 10 /\ RegionHeight > 50)
       /\ resp.wall_info.detected
          <=> (Len(SegmentsFound) > 10 /\ RegionHeight > 50 /\ VerticalFound > 5)

\* C23 witness: eleven or more segments, only four of them near-vertical: a
\* distance hypothesis without a detected wall.
C23_Witness ==
    /\ GeometryAnswered
    /\ Len(SegmentsFound) > 10 /\ VerticalFound <= 5
    /\ ~IsNone(resp.wall_info.distance) /\ ~resp.wall_info.detected

\* The resolver answered the question just handled
ResolverUsed == ValidQuestion /\ obs.fallback
\* The lower-cased question and the detections the resolver was given
AskedLower == Lower(Val(req.question))
Facts == simple_detection_facts(FrameById(Val(req.frame)), K_DEFAULT)
\* The rules in dispatch order, and the cue of each
RuleOrder == <<"descriptive", "counting", "spatial", "action">>
CueOccurs(rule) ==
    LET among(keys) == \E k \in keys : Contains(AskedLower, k)
    IN  CASE rule = "descriptive"
               -> among({S_what_is_here, S_what_do_you_see, S_what_is_around, S_describe})
          [] rule = "counting" -> among({S_how_many, S_count, S_number_of})
          [] rule = "spatial" -> among({S_left, S_right, S_front})
          [] rule = "action" -> among({S_doing, S_action, S_activity})
\* The counting rule's target token, if the question has one
CountTarget == first_target(Split(AskedLower))
\* The response is the answer of rule `rule` ("default": the navigation
\* sentence); a count sentence starts with "I can see " and is the count of
\* the target token when there is one
AnswerIsOf(rule) ==
    LET isPerson(d) == Lower(d.class) = S_person
    IN  CASE rule = "descriptive"
               -> resp.answer = <<"I see: ">>
                     \o Join(", ", Distinct([i \in 1..Len(Facts) |-> Facts[i].class]))
                     \o <<".">>
          [] rule = "counting"
               -> /\ resp.answer[1] = "I can see "
                  /\ ~IsNone(CountTarget)
                     => resp.answer = count_answer(Val(CountTarget), Facts)
          [] rule = "spatial" -> resp.answer = side_answer(Facts)
          [] rule = "action"
               -> resp.answer =
                    IF SelectSeq(Facts, isPerson) # <<>>
                    THEN <<"I can see people, but I cannot determine their exact action from detections alone.">>
                    ELSE <<"I cannot tell the action; I only see objects, no clear people detected.">>
          [] rule = "default" -> resp.answer = navigation_caption_from_detections(Facts)
\* The earliest rule of RuleOrder that `applies`, "default" when none does
Earliest(applies(_)) ==
    LET hits == {i \in 1..Len(RuleOrder) : applies(RuleOrder[i])}
    IN  IF hits = {} THEN "default"
        ELSE RuleOrder[CHOOSE i \in hits : \A j \in hits : i <= j]

\* C24 as stated (Spec).  For every question and every detections list, the
\* empty one included, the resolver's answer is that of the earliest rule, in
\* the order descriptive, counting, spatial, action, whose cue occurs in the
\* question; a counting cue always gives a count sentence; no cue gives the
\* navigation sentence of the caption scheduler.
C24_FirstCueWins ==
    ResolverUsed => AnswerIsOf(Earliest(CueOccurs))

\* A rule applies when its cue occurs and, for the counting rule, the
\* question also has a target token
RuleApplies(rule) ==
    CueOccurs(rule) /\ (rule = "counting" => ~IsNone(CountTarget))

\* C24 as amended (Spec).  For the empty detections list the answer is "I
\* don't see anything clearly in view." whatever the question.  Otherwise it
\* is the answer of the earliest rule that applies, a counting cue without a
\* target token falling through to the later rules, and the navigation
\* sentence when no rule applies.
C24_FirstApplicableRuleWins ==
    ResolverUsed
    => IF Facts = <<>>
       THEN resp.answer = <<"I don't see anything clearly in view.">>
       ELSE AnswerIsOf(Earliest(RuleApplies))

\* C24 witness: "describe how many" carries the descriptive and the counting
\* cue, and the descriptive rule answers.
C24_Witness ==
    /\ ResolverUsed
    /\ req.question = Some(Q_describe_how_many)
    /\ CueOccurs("descriptive") /\ RuleApplies("counting")
    /\ Facts # <<>>
    /\ resp.answer[1] = "I see: "

\* The whitespace-separated tokens of the lower-cased question, and the
\* positions of those that are alphabetic and outside the stoplist
AskedTokens == Split(AskedLower)
TargetPositions ==
    {i \in 1..Len(AskedTokens) :
        /\ IsAlpha(AskedTokens[i])
        /\ AskedTokens[i] \notin {S_how, S_many, S_count, S_of}}
\* The counting rule is the one that answers: detections exist, no
\* descriptive cue precedes it, a counting cue occurs and a token qualifies
CountingAnswers ==
    /\ ResolverUsed
    /\ Facts # <<>>
    /\ ~CueOccurs("descriptive") /\ CueOccurs("counting")
    /\ TargetPositions # {}

\* C25 (Spec).  When the counting rule answers, the target is the first
\* token of the lower-cased question that is alphabetic and not one of how,
\* many, count, of; the count is the number of detections whose lower-cased
\* class contains the target; the answer is "I can see <count> <target>(s).".
C25_CountingTarget ==
    CountingAnswers
    => LET first == CHOOSE i \in TargetPositions : \A j \in TargetPositions : i <= j
           token == AskedTokens[first]
           count == Cardinality({i \in 1..Len(Facts) :
                                    Contains(Lower(Facts[i].class), token)})
       IN  resp.answer = <<"I can see ">> \o IntDigits(count) \o <<" ">> \o token
                         \o <<"(s).">>

\* C25 witness: "count the cat" on the frame of two dogs and a cat takes
\* "the" as its target and counts no detection.
C25_Witness ==
    /\ CountingAnswers
    /\ req.frame = Some("pets")
    /\ AskedTokens = << <<"c","o","u","n","t">>, <<"t","h","e">>, <<"c","a","t">> >>
    /\ resp.answer = <<"I can see ", "0", " ", "t", "h", "e", "(s).">>

\* The loaded model generated an answer for the question just handled
DelegateAnswered ==
    /\ ValidQuestion
    /\ blip_model = "loaded"
    /\ ~IsNone(obs.delegate)
    /\ ~DelegateRaised

\* C26 (Spec).  Whenever the model is loaded and produces an answer, the
\* response carries exactly that text, whatever it contains, and neither
\* detection nor the deterministic resolver runs.
C26_DelegateAnswerReturned ==
    DelegateAnswered
    => /\ resp.answer = Val(obs.delegate)
       /\ ~obs.fallback

\* C27 (Spec).  The caption-throttle timestamp is written only by a
\* captioner invocation that yields text: an analysis whose scheduled
\* invocation yields none (model missing or failing), or that schedules
\* none, leaves last_caption_time as it was.
C27_ThrottleWrittenOnSuccess ==
    [][(Handles("analyze_frame") /\ IsNone(obs'.caption_text))
       => last_caption_time' = last_caption_time]_vars

\* The analyses in progress that have read last_caption_time and scheduled a
\* caption, and have not written it back yet
Scheduling ==
    {w \in Workers : /\ threads[w].op = "analyze_frame"
                     /\ threads[w].pc \in {"caption", "stamp"}}

\* C28 (SpecRace).  Nothing orders the read of last_caption_time (line 491)
\* and its write (line 493) between two analyses: an analysis schedules a
\* caption exactly when the value it read is more than 5 s older than its
\* own clock reading, whatever the other analysis has read or written since,
\* and once scheduled it invokes the captioner without reading again.
C28_StaleReadSchedules ==
    \A w \in Workers :
        (threads[w].op = "analyze_frame" /\ threads[w].pc # "check")
        => /\ threads[w].due <=> threads[w].now - threads[w].seen > CAPTION_INTERVAL
           /\ w \in Scheduling => threads[w].due

\* C28 witness: both analyses read the timestamp before either wrote it,
\* both found the interval elapsed, and both have invoked the captioner,
\* less than 5 s apart.
C28_Witness ==
    /\ \A w \in Workers :
        /\ threads[w].op = "analyze_frame" /\ threads[w].pc = "stamp"
        /\ threads[w].due
        /\ threads[w].seen = last_caption_time
    /\ Abs(threads["w1"].invoked_at - threads["w2"].invoked_at) < CAPTION_INTERVAL

\* The workers that hold a reader for the language tuple key
Holding(key) ==
    {w \in Workers : /\ threads[w].op = "ocr" /\ threads[w].key = key
                     /\ ~IsNone(threads[w].reader)}

\* C29 (SpecReaders).  Check, construct-on-miss and insert are atomic per
\* key: whatever the interleaving of concurrent requests for a tuple that
\* is not cached yet, its recognizer is constructed at most once and all
\* the requests receive the same instance.
C29_ConstructedOnce ==
    /\ \A key \in DOMAIN built : built[key] <= 1
    /\ \A w1 \in Workers, w2 \in Workers :
        (threads[w1].op = "ocr" /\ w2 \in Holding(threads[w1].key)
         /\ w1 \in Holding(threads[w1].key))
        => threads[w1].reader = threads[w2].reader

\* No calibrate or reset request is in flight
StoreQuiet == \A w \in Workers : threads[w].op \notin {"calibrate", "reset_calib"}

\* C30 (SpecStore).  Whenever no calibrate or reset request is in flight,
\* the in-memory K equals the persisted K (both absent, or the same number),
\* after any sequence and interleaving of concurrent calibrate and reset
\* requests.
C30_StoreConsistent ==
    StoreQuiet => K_DEFAULT = load_calib_K(calib_file)

=============================================================================
